---------------------------- MODULE Spec2Model ----------------------------
(***************************************************************************)
(* A model of the hedge-labs fund arena core:                              *)
(*   - the percentage repair engine enforcePortfolioConstraints            *)
(*     (scripts/fund_runner.mjs),                                          *)
(*   - the basis-point repair rebalance_portfolio_if_possible              *)
(*     (scripts/run_fund_once.sh),                                         *)
(*   - the segment-linked NAV calculator (unnamed/part_007 and             *)
(*     scripts/compute_daily_nav.mjs).                                     *)
(*                                                                         *)
(* Numbers.  JavaScript doubles are modelled in fixed point: a weight_pct  *)
(* is an integer count of micro-percent (1e-6 of a percentage point), and  *)
(* every multiplication followed by a division rounds to the nearest unit, *)
(* as IEEE arithmetic rounds to the nearest double.  The engine's          *)
(* tolerances 1e-6 and 1e-9 are one unit and zero units.  TLC integers are *)
(* 32 bits wide, so a*b/c is computed by MulDivQR without forming a*b.     *)
(* Tickers are strings; localeCompare is their rank in TickerOrder.        *)
(***************************************************************************)
EXTENDS Integers, Sequences, FiniteSets, TLC

(***************************************************************************)
(* Bounds of the model.                                                    *)
(***************************************************************************)
\* longest candidate list drawn for the repair engines
MaxLen == 3
\* the most positions a prompt asks for (the fallback universe has 16 names)
MaxPositions == 17
\* the days a lane is followed over
MaxRunDate == 32

(***************************************************************************)
(* Fixed-point arithmetic.                                                 *)
(***************************************************************************)
\* units in 0.01 of a percentage point
CENT == 100 * 100
\* units in one percentage point
PCT == 100 * CENT

Abs(x) == IF x < 0 THEN -x ELSE x
Min(a, b) == IF a < b THEN a ELSE b
Max(a, b) == IF a > b THEN a ELSE b

\* <<q, r>> with a*b = q*c + r and 0 <= r < c, for a, b >= 0 and c > 0
RECURSIVE MulDivQR(_, _, _)
MulDivQR(a, b, c) ==
  IF b = 0 THEN <<0, 0>>
  ELSE LET h == MulDivQR(a, b \div 2, c)
           d == 2 * h[2]
           q2 == 2 * h[1] + (d \div c)
           r2 == d % c
           e == r2 + (a % c)
       IN IF b % 2 = 0 THEN <<q2, r2>>
          ELSE <<q2 + (a \div c) + (e \div c), e % c>>

\* a*b/c rounded to the nearest unit (a, b >= 0, c > 0)
MulDiv(a, b, c) ==
  LET h == IF a < b THEN MulDivQR(b, a, c) ELSE MulDivQR(a, b, c)
  IN IF 2 * h[2] >= c THEN h[1] + 1 ELSE h[1]

\* a/b rounded to the nearest integer, halves away from zero (Math.round and
\* toFixed on the non-negative values the engines round)
RoundDiv(a, b) ==
  IF a >= 0 THEN (2 * a + b) \div (2 * b) ELSE -((2 * (-a) + b) \div (2 * b))

\* Number(value.toFixed(2))
round2(value) == RoundDiv(value, CENT) * CENT

(***************************************************************************)
(* Sequences.                                                              *)
(***************************************************************************)
Range(s) == {s[i] : i \in 1..Len(s)}

RECURSIVE SumSeq(_)
SumSeq(s) == IF s = <<>> THEN 0 ELSE Head(s) + SumSeq(Tail(s))

Weights(p) == [i \in 1..Len(p) |-> p[i].weight_pct]
TickersOf(p) == {p[i].ticker : i \in 1..Len(p)}
SectorsOf(p) == {p[i].sector : i \in 1..Len(p)}

\* every sequence over S of length at most n
SeqUpTo(S, n) == UNION {[1..k -> S] : k \in 0..n}

(***************************************************************************)
(* Tickers and localeCompare.                                              *)
(***************************************************************************)
TickerOrder ==
  <<"AAPL", "AMT", "AMZN", "COST", "GE", "GOOGL", "JNJ", "JPM", "LIN",
    "MSFT", "NEE", "PG", "TSM", "UNH", "V", "XOM">>

Rank(t) == CHOOSE i \in 1..Len(TickerOrder) : TickerOrder[i] = t

\* a.ticker.localeCompare(b.ticker) < 0
TickerBefore(a, b) == Rank(a) < Rank(b)


(***************************************************************************)
(* scripts/fund_runner.mjs: helpers of the percentage repair engine.       *)
(* A holding is [ticker, weight_pct, sector]; a portfolio is a sequence.   *)
(***************************************************************************)
\* remaining > 1e-6, feasibleCapacity + 1e-6 < 100, 100 -+ 1e-6, toTrim <= 1e-6
EPS6 == 1
\* totalCapacity <= 1e-9, sum <= maxSectorPct + 1e-9: below one unit
EPS9 == 0
\* the notes' threshold 0.05
NOTE_THRESHOLD == 5 * CENT
\* iter < 80 in redistributeWithinCaps
MAX_REDISTRIBUTE_ROUNDS == 80
\* iter < 500 in finalizeRoundedWeights
MAX_RECONCILE_STEPS == 500

UNIVERSE ==
  << [ticker |-> "MSFT", sector |-> "Technology"],
     [ticker |-> "JNJ", sector |-> "Healthcare"],
     [ticker |-> "XOM", sector |-> "Energy"],
     [ticker |-> "JPM", sector |-> "Financials"],
     [ticker |-> "COST", sector |-> "Consumer Staples"],
     [ticker |-> "GE", sector |-> "Industrials"],
     [ticker |-> "NEE", sector |-> "Utilities"],
     [ticker |-> "AMT", sector |-> "Real Estate"],
     [ticker |-> "LIN", sector |-> "Materials"],
     [ticker |-> "GOOGL", sector |-> "Communication Services"],
     [ticker |-> "AMZN", sector |-> "Consumer Discretionary"],
     [ticker |-> "TSM", sector |-> "Technology"],
     [ticker |-> "PG", sector |-> "Consumer Staples"],
     [ticker |-> "UNH", sector |-> "Healthcare"],
     [ticker |-> "V", sector |-> "Financials"],
     [ticker |-> "AAPL", sector |-> "Technology"] >>

RECURSIVE SectorSum(_, _)
SectorSum(p, s) ==
  IF p = <<>> THEN 0
  ELSE (IF Head(p).sector = s THEN Head(p).weight_pct ELSE 0) + SectorSum(Tail(p), s)

getSectorSums(portfolio) == [s \in SectorsOf(portfolio) |-> SectorSum(portfolio, s)]

RECURSIVE SumOver(_, _)
SumOver(f, S) ==
  IF S = {} THEN 0 ELSE LET x == CHOOSE y \in S : TRUE IN f[x] + SumOver(f, S \ {x})

MaxOver(f, S) == CHOOSE m \in {f[x] : x \in S} : \A x \in S : f[x] <= m

Total(portfolio) == SumSeq(Weights(portfolio))

sectorMaxWeight(portfolio) ==
  LET bySector == getSectorSums(portfolio)
  IN round2(Max(0, MaxOver(bySector, DOMAIN bySector)))

buildPortfolio(positions, maxPositionPct) ==
  LET n == Max(1, positions)
      equalWeight == round2(RoundDiv(100 * PCT, n))
      cappedWeight == round2(Min(equalWeight, maxPositionPct))
      portfolio == [i \in 1..n |->
                      [ticker |-> UNIVERSE[((i - 1) % Len(UNIVERSE)) + 1].ticker,
                       weight_pct |-> cappedWeight,
                       sector |-> UNIVERSE[((i - 1) % Len(UNIVERSE)) + 1].sector]]
      remainder == round2(100 * PCT - Total(portfolio))
  IN IF remainder > 0
     THEN [portfolio EXCEPT ![1].weight_pct = round2(@ + remainder)]
     ELSE portfolio

normalizeWeightsTo100(portfolio) ==
  LET total == Total(portfolio)
  IN [i \in 1..Len(portfolio) |->
        [portfolio[i] EXCEPT !.weight_pct = MulDiv(@, 100 * PCT, total)]]

computeFeasibleCapacity(portfolio, maxPositionPct, maxSectorPct) ==
  LET sectorCounts == [s \in SectorsOf(portfolio) |->
                         Cardinality({i \in 1..Len(portfolio) : portfolio[i].sector = s})]
      contribution == [s \in SectorsOf(portfolio) |->
                         Min(sectorCounts[s] * maxPositionPct, maxSectorPct)]
  IN SumOver(contribution, SectorsOf(portfolio))

\* (b.weight_pct - a.weight_pct) || a.ticker.localeCompare(b.ticker)
HeavierFirst(a, b) ==
  \/ a.weight_pct > b.weight_pct
  \/ a.weight_pct = b.weight_pct /\ TickerBefore(a.ticker, b.ticker)

\* (a.weight_pct - b.weight_pct) || a.ticker.localeCompare(b.ticker)
LighterFirst(a, b) ==
  \/ a.weight_pct < b.weight_pct
  \/ a.weight_pct = b.weight_pct /\ TickerBefore(a.ticker, b.ticker)

\* the merge of duplicate tickers, in order of first appearance
RECURSIVE MergeInto(_, _)
MergeInto(byTicker, rest) ==
  IF rest = <<>> THEN byTicker
  ELSE LET item == Head(rest)
           at == {i \in 1..Len(byTicker) : byTicker[i].ticker = item.ticker}
       IN IF at = {} THEN MergeInto(Append(byTicker, item), Tail(rest))
          ELSE LET i == CHOOSE j \in at : TRUE
                   existing == byTicker[i]
                   merged == [existing EXCEPT
                                !.weight_pct = @ + item.weight_pct,
                                !.sector = IF @ = "UNKNOWN" /\ item.sector # "UNKNOWN"
                                           THEN item.sector ELSE @]
               IN MergeInto([byTicker EXCEPT ![i] = merged], Tail(rest))

mergeDuplicates(portfolio) == MergeInto(<<>>, portfolio)

\* trimToTopPositions that keeps the first N as listed, without sorting
trimToFirstPositions(portfolio, positions) ==
  IF Len(portfolio) > positions THEN SubSeq(portfolio, 1, positions) ELSE portfolio

trimToTopPositions(portfolio, positions) ==
  IF Len(portfolio) > positions
  THEN SubSeq(SortSeq(portfolio, HeavierFirst), 1, positions)
  ELSE portfolio


(***************************************************************************)
(* enforcePortfolioConstraints, one operator per block of the function.    *)
(* The engine's state s: pc (the block to run next), portfolio, excess,    *)
(* and for the two loops remaining/iter (redistributeWithinCaps, entered   *)
(* by call 1 or 2) and residual/iter (finalizeRoundedWeights); notes and   *)
(* reason are what the returned repairNotes say.                           *)
(***************************************************************************)
TRIM_NOTE == "trimmed_to_top_positions"
REASONS ==
  {"empty_or_invalid_portfolio", "infeasible_sector_capacity",
   "post_repair_constraints_failed"}

PeStart(initialPortfolio) ==
  [pc |-> "merge", portfolio |-> initialPortfolio, excess |-> 0, remaining |-> 0,
   iter |-> 0, call |-> 0, residual |-> 0, notes |-> {}, reason |-> "none"]

\* return { portfolio: buildPortfolio(...), repaired: true, repairNotes: [...] }
PeFallback(s, context, notes, reason) ==
  [s EXCEPT !.pc = "done",
            !.portfolio = buildPortfolio(context.positions, context.maxPositionPct),
            !.notes = notes, !.reason = reason]

PeMerge(s, context) == [s EXCEPT !.pc = "trim", !.portfolio = mergeDuplicates(@)]

PeTrim(s, context) ==
  [s EXCEPT !.pc = "normalize",
            !.portfolio = trimToTopPositions(@, context.positions),
            !.notes = IF Len(s.portfolio) > context.positions
                      THEN @ \cup {TRIM_NOTE} ELSE @]

\* PeNormalize reporting an empty candidate under the wrong reason code
PeNormalizeWrongReason(s, context) ==
  IF Len(s.portfolio) = 0 \/ Total(s.portfolio) <= 0
  THEN PeFallback(s, context, {}, "infeasible_sector_capacity")
  ELSE [s EXCEPT !.pc = "feasibility", !.portfolio = normalizeWeightsTo100(@)]

PeNormalize(s, context) ==
  IF Len(s.portfolio) = 0 \/ Total(s.portfolio) <= 0
  THEN PeFallback(s, context, {}, "empty_or_invalid_portfolio")
  ELSE [s EXCEPT !.pc = "feasibility", !.portfolio = normalizeWeightsTo100(@)]

\* PeFeasibility without its check
PeFeasibilityUnchecked(s, context) == [s EXCEPT !.pc = "clip"]

PeFeasibility(s, context) ==
  LET feasibleCapacity ==
        computeFeasibleCapacity(s.portfolio, context.maxPositionPct, context.maxSectorPct)
  IN IF feasibleCapacity + EPS6 < 100 * PCT
     THEN PeFallback(s, context, {}, "infeasible_sector_capacity")
     ELSE [s EXCEPT !.pc = "clip"]

PeClip(s, context) ==
  LET over(i) == s.portfolio[i].weight_pct > context.maxPositionPct
      clipped == [i \in 1..Len(s.portfolio) |->
                    IF over(i) THEN s.portfolio[i].weight_pct - context.maxPositionPct
                    ELSE 0]
  IN [s EXCEPT !.pc = "sectors",
               !.excess = SumSeq(clipped),
               !.portfolio = [i \in 1..Len(s.portfolio) |->
                                IF over(i)
                                THEN [s.portfolio[i] EXCEPT
                                        !.weight_pct = context.maxPositionPct]
                                ELSE s.portfolio[i]]]

PeScaleSectors(s, context) ==
  LET sectorSums == getSectorSums(s.portfolio)
      newWeight(i) ==
        LET item == s.portfolio[i]
            sum == sectorSums[item.sector]
        IN IF sum <= context.maxSectorPct + EPS9 THEN item.weight_pct
           ELSE MulDiv(item.weight_pct, context.maxSectorPct, sum)
      removed == [i \in 1..Len(s.portfolio) |-> s.portfolio[i].weight_pct - newWeight(i)]
      excess == s.excess + SumSeq(removed)
  IN [s EXCEPT !.pc = "redistribute", !.call = 1, !.iter = 0,
               !.excess = excess, !.remaining = excess,
               !.portfolio = [i \in 1..Len(s.portfolio) |->
                                [s.portfolio[i] EXCEPT !.weight_pct = newWeight(i)]]]

\* the capacities array of one round of redistributeWithinCaps
Capacities(portfolio, maxPositionPct, maxSectorPct) ==
  LET sectorSums == getSectorSums(portfolio)
  IN [i \in 1..Len(portfolio) |->
        Min(Max(0, maxPositionPct - portfolio[i].weight_pct),
            Max(0, maxSectorPct - sectorSums[portfolio[i].sector]))]

\* the loop of redistributeWithinCaps goes round once more
RedistributeContinues(s, context) ==
  /\ s.iter < MAX_REDISTRIBUTE_ROUNDS
  /\ s.remaining > EPS6
  /\ SumSeq(Capacities(s.portfolio, context.maxPositionPct, context.maxSectorPct)) > EPS9

PeRedistributeRound(s, context) ==
  LET capacities == Capacities(s.portfolio, context.maxPositionPct, context.maxSectorPct)
      totalCapacity == SumSeq(capacities)
      delta == Min(s.remaining, totalCapacity)
  IN [s EXCEPT !.iter = @ + 1,
               !.remaining = @ - delta,
               !.portfolio = [i \in 1..Len(s.portfolio) |->
                                IF capacities[i] <= 0 THEN s.portfolio[i]
                                ELSE [s.portfolio[i] EXCEPT !.weight_pct =
                                        @ + MulDiv(delta, capacities[i], totalCapacity)]]]

\* redistributeWithinCaps returns remaining to its caller
PeRedistributeReturn(s, context) ==
  LET note == IF s.call = 1 THEN "unallocated_after_caps" ELSE "final_unallocated"
  IN [s EXCEPT !.pc = IF s.call = 1 THEN "total" ELSE "round",
               !.notes = IF s.remaining > NOTE_THRESHOLD THEN @ \cup {note} ELSE @]

IndexOf(portfolio, ticker) ==
  CHOOSE i \in 1..Len(portfolio) : portfolio[i].ticker = ticker

\* for (const item of [...portfolio].sort(...)) { cut = min(weight, toTrim) ... }
RECURSIVE TrimLargest(_, _, _)
TrimLargest(portfolio, order, toTrim) ==
  IF order = <<>> \/ toTrim <= EPS6 THEN portfolio
  ELSE LET i == IndexOf(portfolio, Head(order).ticker)
           cut == Min(portfolio[i].weight_pct, toTrim)
       IN TrimLargest([portfolio EXCEPT ![i].weight_pct = @ - cut],
                      Tail(order), toTrim - cut)

PeCheckTotal(s, context) ==
  LET currentTotal == Total(s.portfolio)
  IN IF currentTotal < 100 * PCT - EPS6
     THEN [s EXCEPT !.pc = "redistribute", !.call = 2, !.iter = 0,
                    !.remaining = 100 * PCT - currentTotal]
     ELSE IF currentTotal > 100 * PCT + EPS6
     THEN [s EXCEPT !.pc = "round",
                    !.portfolio = TrimLargest(@, SortSeq(@, HeavierFirst),
                                              currentTotal - 100 * PCT)]
     ELSE [s EXCEPT !.pc = "round"]


\* finalizeRoundedWeights up to its loop: round every weight, compute residual
PeRound(s, context) ==
  LET rounded == [i \in 1..Len(s.portfolio) |->
                    [s.portfolio[i] EXCEPT !.weight_pct = round2(Max(0, @))]]
      residual == round2(100 * PCT - Total(rounded))
  IN [s EXCEPT !.portfolio = rounded, !.residual = residual, !.iter = 0,
               !.pc = IF Abs(residual) < CENT THEN "validate" ELSE "reconcile"]

\* the holdings the loop of finalizeRoundedWeights may nudge
NudgeUp(portfolio, maxPositionPct, maxSectorPct) ==
  LET sectorSums == getSectorSums(portfolio)
  IN {i \in 1..Len(portfolio) :
        /\ portfolio[i].weight_pct + CENT <= maxPositionPct
        /\ sectorSums[portfolio[i].sector] + CENT <= maxSectorPct}

NudgeDown(portfolio) == {i \in 1..Len(portfolio) : portfolio[i].weight_pct >= CENT}

\* [...portfolio].sort(cmp).find(ok): the first of `among` in the sorted order
FirstLightest(portfolio, among) ==
  CHOOSE i \in among : \A j \in among \ {i} : LighterFirst(portfolio[i], portfolio[j])
FirstHeaviest(portfolio, among) ==
  CHOOSE i \in among : \A j \in among \ {i} : HeavierFirst(portfolio[i], portfolio[j])

ReconcileCandidates(s, context) ==
  IF s.residual > 0
  THEN NudgeUp(s.portfolio, context.maxPositionPct, context.maxSectorPct)
  ELSE NudgeDown(s.portfolio)

ReconcileContinues(s, context) ==
  /\ s.iter < MAX_RECONCILE_STEPS
  /\ Abs(s.residual) >= CENT
  /\ ReconcileCandidates(s, context) # {}

\* PeReconcileStep without iter += 1
PeReconcileStepUncounted(s, context) ==
  LET among == ReconcileCandidates(s, context)
  IN IF s.residual > 0
     THEN LET i == FirstLightest(s.portfolio, among)
          IN [s EXCEPT !.portfolio[i].weight_pct = round2(@ + CENT),
                       !.residual = round2(@ - CENT)]
     ELSE LET i == FirstHeaviest(s.portfolio, among)
          IN [s EXCEPT !.portfolio[i].weight_pct = round2(@ - CENT),
                       !.residual = round2(@ + CENT)]

PeReconcileStep(s, context) ==
  LET among == ReconcileCandidates(s, context)
  IN IF s.residual > 0
     THEN LET i == FirstLightest(s.portfolio, among)
          IN [s EXCEPT !.iter = @ + 1,
                       !.portfolio[i].weight_pct = round2(@ + CENT),
                       !.residual = round2(@ - CENT)]
     ELSE LET i == FirstHeaviest(s.portfolio, among)
          IN [s EXCEPT !.iter = @ + 1,
                       !.portfolio[i].weight_pct = round2(@ - CENT),
                       !.residual = round2(@ + CENT)]

PeReconcileReturn(s, context) == [s EXCEPT !.pc = "validate"]

\* the final validation and the two returns after it
PeValidate(s, context) ==
  LET w == Weights(s.portfolio)
      maxPositionObserved == round2(MaxOver(w, DOMAIN w))
      maxSectorObserved == sectorMaxWeight(s.portfolio)
      maxPositionOk == maxPositionObserved <= context.maxPositionPct + CENT
      maxSectorOk == maxSectorObserved <= context.maxSectorPct + CENT
  IN IF ~maxPositionOk \/ ~maxSectorOk
     THEN PeFallback(s, context, s.notes, "post_repair_constraints_failed")
     ELSE [s EXCEPT !.pc = "done"]

\* one block of enforcePortfolioConstraints
PeStep(s, context) ==
  CASE s.pc = "merge" -> PeMerge(s, context)
    [] s.pc = "trim" -> PeTrim(s, context)
    [] s.pc = "normalize" -> PeNormalize(s, context)
    [] s.pc = "feasibility" -> PeFeasibility(s, context)
    [] s.pc = "clip" -> PeClip(s, context)
    [] s.pc = "sectors" -> PeScaleSectors(s, context)
    [] s.pc = "redistribute" ->
         IF RedistributeContinues(s, context) THEN PeRedistributeRound(s, context)
         ELSE PeRedistributeReturn(s, context)
    [] s.pc = "total" -> PeCheckTotal(s, context)
    [] s.pc = "round" -> PeRound(s, context)
    [] s.pc = "reconcile" ->
         IF ReconcileContinues(s, context) THEN PeReconcileStep(s, context)
         ELSE PeReconcileReturn(s, context)
    [] s.pc = "validate" -> PeValidate(s, context)
    [] OTHER -> s

\* enforcePortfolioConstraints run from state s to its return
RECURSIVE PeRun(_, _)
PeRun(s, context) == IF s.pc = "done" THEN s ELSE PeRun(PeStep(s, context), context)

enforcePortfolioConstraints(initialPortfolio, context) ==
  PeRun(PeStart(initialPortfolio), context)


(***************************************************************************)
(* scripts/run_fund_once.sh: rebalance_portfolio_if_possible, the repair   *)
(* in whole basis points.  Its state s: pc, weightsBp, the distribute      *)
(* call in progress (remaining, guard, ret: where it returns to), the      *)
(* round iter of the sector loop, and exit (the process exit code, -1      *)
(* while it runs).  tickers and sectors are read from the candidate.       *)
(***************************************************************************)
targetTotalBp == 10000
\* guard < 20000 in distribute
MAX_DISTRIBUTE_STEPS == 20000
\* iter < 12 in the sector loop
MAX_SECTOR_ROUNDS == 12

minWeightBp(context) == RoundDiv(context.minPositionPct, CENT)
\* Math.floor(maxPosition * 100 + 1e-6): the 1e-6 of a basis point is below one unit
maxPositionBp(context) == context.maxPositionPct \div CENT
maxSectorBp(context) == context.maxSectorPct \div CENT

BpExit(s, code) == [s EXCEPT !.pc = "done", !.exit = code]

BpStart ==
  [pc |-> "parse", weightsBp |-> <<>>, remaining |-> 0, guard |-> 0, ret |-> "none",
   iter |-> 0, exit |-> -1]

\* the argument checks and the loop that fills tickers, sectors and weightsBp
BpParse(s, candidate, context) ==
  LET n == Len(candidate)
      badItem(i) ==
        \/ candidate[i].ticker \in {"", "UNKNOWN", "CASH"}
        \/ \E j \in 1..(i - 1) : candidate[j].ticker = candidate[i].ticker
        \/ candidate[i].sector \in {"", "UNKNOWN"}
        \/ candidate[i].weight_pct <= 0
  IN IF \/ context.positions <= 0
        \/ minWeightBp(context) <= 0
        \/ maxPositionBp(context) < minWeightBp(context)
        \/ maxSectorBp(context) < minWeightBp(context)
        \/ n # context.positions
        \/ \E i \in 1..n : badItem(i)
     THEN BpExit(s, 1)
     ELSE [s EXCEPT !.pc = "clip",
                    !.weightsBp = [i \in 1..n |->
                       Max(minWeightBp(context), RoundDiv(candidate[i].weight_pct, CENT))]]

buildSectorSums(weightsBp, candidate) ==
  [sec \in SectorsOf(candidate) |->
     SumSeq([i \in 1..Len(weightsBp) |->
               IF candidate[i].sector = sec THEN weightsBp[i] ELSE 0])]

\* BpClip that clips to the minimum where the maximum is meant
BpClipToMin(s, candidate, context) ==
  [s EXCEPT !.pc = "balance1",
            !.weightsBp = [i \in 1..Len(@) |-> Min(@[i], minWeightBp(context))]]

BpClip(s, candidate, context) ==
  [s EXCEPT !.pc = "balance1",
            !.weightsBp = [i \in 1..Len(@) |-> Min(@[i], maxPositionBp(context))]]

\* for (const idx of order) { cut = min(weightsBp[idx] - minWeightBp, need) ... };
\* <<weightsBp, what is left of need>>
RECURSIVE CutInOrder(_, _, _, _)
CutInOrder(weightsBp, order, need, minBp) ==
  IF order = <<>> \/ need <= 0 THEN <<weightsBp, need>>
  ELSE LET idx == Head(order)
           removable == weightsBp[idx] - minBp
           cut == Min(removable, need)
       IN IF removable <= 0 THEN CutInOrder(weightsBp, Tail(order), need, minBp)
          ELSE CutInOrder([weightsBp EXCEPT ![idx] = @ - cut], Tail(order),
                          need - cut, minBp)

\* weightsBp.map((w, i) => ({i, w})).sort((a, b) => b.w - a.w): a stable sort
HeaviestFirstOrder(weightsBp) ==
  LET before(i, j) == weightsBp[i] > weightsBp[j] \/ (weightsBp[i] = weightsBp[j] /\ i < j)
  IN SortSeq([i \in 1..Len(weightsBp) |-> i], before)

\* room = Math.min(posRoom, sectorRoom) of every index
Rooms(weightsBp, candidate, context) ==
  LET sectorSums == buildSectorSums(weightsBp, candidate)
  IN [i \in 1..Len(weightsBp) |->
        Min(maxPositionBp(context) - weightsBp[i],
            maxSectorBp(context) - sectorSums[candidate[i].sector])]

\* bestIndex of distribute: the first index of the greatest room, 0 for none
BestIndex(room) ==
  LET positive == {i \in DOMAIN room : room[i] > 0}
  IN IF positive = {} THEN 0
     ELSE CHOOSE i \in positive :
            \A j \in positive : room[j] < room[i] \/ (room[j] = room[i] /\ i <= j)

\* distribute(amount), called: the loop starts, to return to pc ret
BpCallDistribute(s, amount, ret) ==
  [s EXCEPT !.pc = "distribute", !.remaining = amount, !.guard = 0, !.ret = ret]

DistributeContinues(s) == s.remaining > 0 /\ s.guard < MAX_DISTRIBUTE_STEPS

\* one round of the while loop of distribute
BpDistributeStep(s, candidate, context) ==
  LET room == Rooms(s.weightsBp, candidate, context)
      bestIndex == BestIndex(room)
      add == Min(s.remaining, room[bestIndex])
  IN IF bestIndex = 0 THEN BpExit([s EXCEPT !.guard = @ + 1], 1)
     ELSE [s EXCEPT !.guard = @ + 1,
                    !.weightsBp[bestIndex] = @ + add,
                    !.remaining = @ - add]

\* return remaining === 0; every caller exits on false
BpDistributeReturn(s, candidate, context) ==
  IF s.remaining = 0 THEN [s EXCEPT !.pc = s.ret] ELSE BpExit(s, 1)


\* the two blocks that bring the total to targetTotalBp (before and after the
\* sector loop); next is the block that follows
BpBalance(s, candidate, context, next) ==
  LET currentTotal == SumSeq(s.weightsBp)
      trimmed == CutInOrder(s.weightsBp, HeaviestFirstOrder(s.weightsBp),
                            currentTotal - targetTotalBp, minWeightBp(context))
  IN IF currentTotal > targetTotalBp
     THEN IF trimmed[2] > 0 THEN BpExit(s, 1)
          ELSE [s EXCEPT !.pc = next, !.weightsBp = trimmed[1]]
     ELSE IF currentTotal < targetTotalBp
     THEN BpCallDistribute(s, targetTotalBp - currentTotal, next)
     ELSE [s EXCEPT !.pc = next]

\* the indices of one sector, heaviest first, equal weights by ticker
SectorOrder(weightsBp, candidate, sector) ==
  LET members == {i \in 1..Len(weightsBp) : candidate[i].sector = sector}
      before(i, j) ==
        \/ weightsBp[i] > weightsBp[j]
        \/ weightsBp[i] = weightsBp[j]
           /\ TickerBefore(candidate[i].ticker, candidate[j].ticker)
      RECURSIVE asSeq(_)
      asSeq(S) == IF S = {} THEN <<>>
                  ELSE LET x == CHOOSE y \in S : TRUE IN <<x>> \o asSeq(S \ {x})
  IN SortSeq(asSeq(members), before)

\* removeOverweightSectors: <<weightsBp, moved>>, moved = -1 for null
RECURSIVE RemoveOver(_, _, _, _, _)
RemoveOver(weightsBp, overSectors, moved, candidate, context) ==
  IF overSectors = {} THEN <<weightsBp, moved>>
  ELSE LET sector == CHOOSE x \in overSectors : TRUE
           sums == buildSectorSums(weightsBp, candidate)
           excess == sums[sector] - maxSectorBp(context)
           cut == CutInOrder(weightsBp, SectorOrder(weightsBp, candidate, sector),
                             excess, minWeightBp(context))
       IN IF cut[2] > 0 THEN <<cut[1], -1>>
          ELSE RemoveOver(cut[1], overSectors \ {sector}, moved + excess,
                          candidate, context)

removeOverweightSectors(weightsBp, candidate, context) ==
  LET sectorSums == buildSectorSums(weightsBp, candidate)
      overSectors == {x \in DOMAIN sectorSums : sectorSums[x] > maxSectorBp(context)}
  IN RemoveOver(weightsBp, overSectors, 0, candidate, context)

\* BpSectorRound that leaves overweight sectors alone
BpSectorRoundSkipped(s, candidate, context) == [s EXCEPT !.pc = "balance2"]

\* one round of for (let iter = 0; iter < 12; iter += 1), up to its distribute call
BpSectorRound(s, candidate, context) ==
  LET r == removeOverweightSectors(s.weightsBp, candidate, context)
  IN IF s.iter >= MAX_SECTOR_ROUNDS THEN [s EXCEPT !.pc = "balance2"]
     ELSE IF r[2] < 0 THEN BpExit(s, 1)
     ELSE IF r[2] = 0 THEN [s EXCEPT !.pc = "balance2"]
     ELSE BpCallDistribute([s EXCEPT !.weightsBp = r[1], !.iter = @ + 1], r[2], "sectors")

\* the final checks, and the write of weight_pct = weightsBp / 100
BpFinal(s, candidate, context) ==
  LET sums == buildSectorSums(s.weightsBp, candidate)
  IN IF \/ \E x \in DOMAIN sums : sums[x] > maxSectorBp(context)
        \/ \E i \in 1..Len(s.weightsBp) :
             s.weightsBp[i] < minWeightBp(context) \/ s.weightsBp[i] > maxPositionBp(context)
        \/ SumSeq(s.weightsBp) # targetTotalBp
     THEN BpExit(s, 1)
     ELSE BpExit(s, 0)

BpStep(s, candidate, context) ==
  CASE s.pc = "parse" -> BpParse(s, candidate, context)
    [] s.pc = "clip" -> BpClip(s, candidate, context)
    [] s.pc = "balance1" -> BpBalance(s, candidate, context, "sectors")
    [] s.pc = "distribute" ->
         IF DistributeContinues(s) THEN BpDistributeStep(s, candidate, context)
         ELSE BpDistributeReturn(s, candidate, context)
    [] s.pc = "sectors" -> BpSectorRound(s, candidate, context)
    [] s.pc = "balance2" -> BpBalance(s, candidate, context, "final")
    [] s.pc = "final" -> BpFinal(s, candidate, context)
    [] OTHER -> s

RECURSIVE BpRun(_, _, _)
BpRun(s, candidate, context) ==
  IF s.pc = "done" THEN s ELSE BpRun(BpStep(s, candidate, context), candidate, context)

\* the run of rebalance_portfolio_if_possible on a candidate file
rebalance_portfolio_if_possible(candidate, context) == BpRun(BpStart, candidate, context)

\* the target_portfolio the run leaves in the file: rewritten on exit 0 only
WrittenPortfolio(s, candidate) ==
  IF s.exit = 0
  THEN [i \in 1..Len(candidate) |->
          [candidate[i] EXCEPT !.weight_pct = s.weightsBp[i] * CENT]]
  ELSE candidate


(***************************************************************************)
(* The repair engines as a state machine.  candidate is the proposed       *)
(* target_portfolio as normalizeOutput hands it to the engine (tickers     *)
(* trimmed and upper-cased, weights two-decimal and >= 0), context the     *)
(* lane's caps; pe runs enforcePortfolioConstraints on them and then be    *)
(* runs rebalance_portfolio_if_possible on the same candidate.             *)
(***************************************************************************)
VARIABLES candidate, context, pe, be

(***************************************************************************)
(* The NAV calculator as a state machine.  successfulRuns is the fund's    *)
(* history of successful runs ([date, holdings] in date order), runDate    *)
(* the date evaluated, chartFor the fetched chart of every ticker,         *)
(* benchmarkTicker "" for none, script which of the two programs runs, and *)
(* nv its progress: the segments, the next one to pass, nav, benchNav,     *)
(* benchOk, minCoverage (-1 for null), alignedAsOfDate (0 for null), legs  *)
(* (what each passed segment counted) and the result it prints.            *)
(***************************************************************************)
VARIABLES successfulRuns, runDate, chartFor, benchmarkTicker, script, nv

(***************************************************************************)
(* The batch fetch as a state machine.  fetch is one call of               *)
(* mapWithConcurrency with the chart-fetching mapper: its items and limit, *)
(* the shared index, the workers (where each one stands, the item it       *)
(* holds, the spelling it is fetching), the chartCache (the keys it has    *)
(* and their values), and a record of how often every symbol was fetched   *)
(* and every key written, and how often the mapper was called for every    *)
(* index of the items.  pc is "done" when no batch is in progress.         *)
(***************************************************************************)
VARIABLES fetch

(***************************************************************************)
(* One call of closeOnOrBefore: the chart and the target date it is given  *)
(* and, once it has returned, what it returned.                            *)
(***************************************************************************)
VARIABLES lookup

(***************************************************************************)
(* One lane run of scripts/run_fund_once.sh: the lane's cadence, the run   *)
(* date, the runs directories of earlier dates (runs), what the script     *)
(* found there (prev_output_date, prev_output, rebalance_due), where the   *)
(* script stands (pc, and phase: which agent attempt), its variables       *)
(* status, reason and retry_used, the file dexter_output.json (doc), the   *)
(* latest scratchpad written since the start (latest_pad) and the copy the *)
(* script took (scratchpad), the number of agent attempts made, and what   *)
(* it wrote to run_meta.json and exited with.                              *)
(***************************************************************************)
VARIABLES lane

repairVars == <<candidate, context, pe, be>>
navVars == <<successfulRuns, runDate, chartFor, benchmarkTicker, script, nv>>
vars == <<candidate, context, pe, be,
          successfulRuns, runDate, chartFor, benchmarkTicker, script, nv, fetch,
          lookup, lane>>

Holding(ticker, sector, pct) ==
  [ticker |-> ticker, weight_pct |-> pct * PCT, sector |-> sector]

Context(positions, minPct, maxPct, maxSectorPct) ==
  [positions |-> positions, minPositionPct |-> minPct * PCT,
   maxPositionPct |-> maxPct * PCT, maxSectorPct |-> maxSectorPct * PCT]

\* the holdings candidates are drawn from
Proposals ==
  { Holding("AAPL", "Technology", 20), Holding("AAPL", "Technology", 50),
    Holding("MSFT", "Technology", 30), Holding("MSFT", "Technology", 50),
    Holding("JNJ", "Healthcare", 0), Holding("JNJ", "Healthcare", 50),
    Holding("JNJ", "UNKNOWN", 20), Holding("XOM", "Energy", 20) }

\* the lanes' caps they are repaired against
Contexts ==
  { Context(3, 10, 50, 60), Context(2, 10, 60, 60), Context(2, 20, 50, 100) }

\* ten holdings in two sectors of five, against positions = 10, 5/20/30
TwoSectorsOfFive ==
  << << Holding("AAPL", "Technology", 10), Holding("MSFT", "Technology", 10),
        Holding("TSM", "Technology", 10), Holding("GOOGL", "Technology", 10),
        Holding("AMZN", "Technology", 10), Holding("JNJ", "Healthcare", 10),
        Holding("UNH", "Healthcare", 10), Holding("PG", "Healthcare", 10),
        Holding("COST", "Healthcare", 10), Holding("LIN", "Healthcare", 10) >>,
     Context(10, 5, 20, 30) >>

\* twelve proposed holdings against positions = 10; three of them tie at 7
TwelveForTen ==
  << << Holding("AAPL", "Technology", 12), Holding("MSFT", "Technology", 11),
        Holding("JNJ", "Healthcare", 10), Holding("UNH", "Healthcare", 10),
        Holding("XOM", "Energy", 9), Holding("GE", "Industrials", 9),
        Holding("JPM", "Financials", 8), Holding("V", "Financials", 8),
        Holding("PG", "Consumer Staples", 7), Holding("COST", "Consumer Staples", 7),
        Holding("NEE", "Utilities", 7), Holding("LIN", "Materials", 2) >>,
     Context(10, 5, 20, 30) >>

\* two holdings with room in one sector, and more excess than the sector takes
SharedSectorRoom ==
  << << Holding("AAPL", "Technology", 0), Holding("MSFT", "Technology", 0),
        Holding("JNJ", "Healthcare", 5), Holding("UNH", "Healthcare", 95) >>,
     Context(4, 5, 40, 50) >>

\* caps that leave little slack: capacity 105 against a least total of 75
BarelyFeasible ==
  << << Holding("AAPL", "Technology", 60), Holding("MSFT", "Technology", 10),
        Holding("JNJ", "Healthcare", 10), Holding("UNH", "Healthcare", 10),
        Holding("XOM", "Energy", 10) >>,
     Context(5, 15, 25, 40) >>

Examples == {TwoSectorsOfFive, TwelveForTen, SharedSectorRoom, BarelyFeasible}

\* prompts whose portfolio cannot be read, for every number of positions up
\* to MaxPositions: the repair answers them with the fallback portfolio
FallbackInputs ==
  {<< <<>>, Context(n, 1, m, 100) >> : n \in 1..MaxPositions, m \in {10, 12, 20, 50, 100}}

Inputs ==
  {<<c, k>> : c \in SeqUpTo(Proposals, MaxLen), k \in Contexts}
    \cup Examples \cup FallbackInputs

\* no segment passed yet
NvStart ==
  [pc |-> "start", segments |-> <<>>, next |-> 1, nav |-> <<100, 1>>,
   benchNav |-> <<100, 1>>, benchOk |-> FALSE, minCoverage |-> -1,
   alignedAsOfDate |-> 0, failed |-> FALSE, legs |-> <<>>,
   result |-> [data |-> FALSE]]

NoChart == <<>>
NavTickers == {"TICK_A", "TICK_B", "TICK_C", "SPY", "BRK.B", "ZZZZ"}

\* no call of closeOnOrBefore on its own
NoLookup ==
  [pc |-> "none", chart |-> <<>>, targetDate |-> 0,
   found |-> [date |-> 0, close |-> 0]]

\* no lane run
NoLane == [pc |-> "none"]

\* no batch fetch in progress
FetchDone ==
  [pc |-> "done", items |-> <<>>, limit |-> 0, index |-> 0, workers |-> <<>>,
   has |-> {}, value |-> [t \in NavTickers |-> NoChart],
   fetched |-> <<>>, served |-> <<>>, written |-> <<>>, called |-> <<>>,
   startDate |-> 0, outItems |-> <<>>]

\* the repair engines at work, no NAV computed
Init ==
  /\ \E in \in Inputs : candidate = in[1] /\ context = in[2]
  /\ pe = PeStart(candidate)
  /\ be = BpStart
  /\ successfulRuns = <<>> /\ runDate = 1 /\ benchmarkTicker = "" /\ script = "none"
  /\ chartFor = [t \in NavTickers |-> NoChart]
  /\ nv = NvStart
  /\ fetch = FetchDone
  /\ lookup = NoLookup
  /\ lane = NoLane

PeAt(pc) ==
  /\ pe.pc = pc /\ UNCHANGED <<candidate, context, be>>
  /\ UNCHANGED <<navVars, fetch, lookup, lane>>
BeAt(pc) ==
  /\ pe.pc = "done" /\ be.pc = pc
  /\ UNCHANGED <<candidate, context, pe>> /\ UNCHANGED <<navVars, fetch, lookup, lane>>

MergeDuplicates == PeAt("merge") /\ pe' = PeMerge(pe, context)
TrimToTopPositions == PeAt("trim") /\ pe' = PeTrim(pe, context)
Normalize == PeAt("normalize") /\ pe' = PeNormalize(pe, context)
CheckFeasibility == PeAt("feasibility") /\ pe' = PeFeasibility(pe, context)
ClipPositions == PeAt("clip") /\ pe' = PeClip(pe, context)
ScaleSectors == PeAt("sectors") /\ pe' = PeScaleSectors(pe, context)
RedistributeRound ==
  /\ PeAt("redistribute") /\ RedistributeContinues(pe, context)
  /\ pe' = PeRedistributeRound(pe, context)
RedistributeReturn ==
  /\ PeAt("redistribute") /\ ~RedistributeContinues(pe, context)
  /\ pe' = PeRedistributeReturn(pe, context)
CheckTotal == PeAt("total") /\ pe' = PeCheckTotal(pe, context)
RoundWeights == PeAt("round") /\ pe' = PeRound(pe, context)
ReconcileStep ==
  /\ PeAt("reconcile") /\ ReconcileContinues(pe, context)
  /\ pe' = PeReconcileStep(pe, context)
ReconcileReturn ==
  /\ PeAt("reconcile") /\ ~ReconcileContinues(pe, context)
  /\ pe' = PeReconcileReturn(pe, context)
Validate == PeAt("validate") /\ pe' = PeValidate(pe, context)

ParseCandidate == BeAt("parse") /\ be' = BpParse(be, candidate, context)
ClipToMaxPosition == BeAt("clip") /\ be' = BpClip(be, candidate, context)
BalanceTotal == BeAt("balance1") /\ be' = BpBalance(be, candidate, context, "sectors")
DistributeStep ==
  /\ BeAt("distribute") /\ DistributeContinues(be)
  /\ be' = BpDistributeStep(be, candidate, context)
DistributeReturn ==
  /\ BeAt("distribute") /\ ~DistributeContinues(be)
  /\ be' = BpDistributeReturn(be, candidate, context)
SectorRound == BeAt("sectors") /\ be' = BpSectorRound(be, candidate, context)
RebalanceTotal == BeAt("balance2") /\ be' = BpBalance(be, candidate, context, "final")
FinalChecks == BeAt("final") /\ be' = BpFinal(be, candidate, context)

Next ==
  \/ MergeDuplicates \/ TrimToTopPositions \/ Normalize \/ CheckFeasibility
  \/ ClipPositions \/ ScaleSectors \/ RedistributeRound \/ RedistributeReturn
  \/ CheckTotal \/ RoundWeights \/ ReconcileStep \/ ReconcileReturn \/ Validate
  \/ ParseCandidate \/ ClipToMaxPosition \/ BalanceTotal \/ DistributeStep
  \/ DistributeReturn \/ SectorRound \/ RebalanceTotal \/ FinalChecks

Spec == Init /\ [][Next]_vars


(***************************************************************************)
(* unnamed/part_007 (performance_since_added) and                          *)
(* scripts/compute_daily_nav.mjs: the segment-linked NAV calculator.       *)
(* A date is a day number (ISO date strings compare as their days do), a   *)
(* chart a sequence of [date, close] in date order as fetchYahooChart      *)
(* builds it (closes finite and > 0), <<>> for the null of a failed fetch. *)
(* A weight is a whole number of 0.01 percent.  Returns and NAVs are exact *)
(* fractions <<n, d>> in lowest terms with d > 0.                          *)
(***************************************************************************)
\* the last day a chart or a run can carry
MaxDay == 4

RECURSIVE GCD(_, _)
GCD(a, b) == IF b = 0 THEN a ELSE GCD(b, a % b)

Rat(n, d) ==
  LET g == GCD(Abs(n), Abs(d))
      sign == IF d < 0 THEN -1 ELSE 1
  IN <<sign * (n \div g), sign * (d \div g)>>
RatAdd(a, b) == Rat(a[1] * b[2] + b[1] * a[2], a[2] * b[2])
RatMul(a, b) ==
  LET x == Rat(a[1], b[2])
      y == Rat(b[1], a[2])
  IN <<x[1] * y[1], x[2] * y[2]>>

\* asPct(value) = Number(value.toFixed(2)), in whole 0.01 units
asPct(value) ==
  LET h == MulDivQR(Abs(value[1]), 100, value[2])
      cents == IF 2 * h[2] >= value[2] THEN h[1] + 1 ELSE h[1]
  IN IF value[1] < 0 THEN -cents ELSE cents

\* what closeOnOrBefore returns for null
NoClose == [date |-> 0, close |-> 0]

\* the date itself, no day taken off
sameDay(dateStr) == dateStr

dayBefore(dateStr) == dateStr - 1

\* the binary search of upperBound, on 0-based lo and hi
RECURSIVE upperBoundFrom(_, _, _, _)
upperBoundFrom(arr, target, lo, hi) ==
  IF lo < hi
  THEN LET mid == (lo + hi) \div 2
       IN IF arr[mid + 1] <= target THEN upperBoundFrom(arr, target, mid + 1, hi)
          ELSE upperBoundFrom(arr, target, lo, mid)
  ELSE lo

\* the binary search with arr[mid] < target for its test
RECURSIVE lowerBoundFrom(_, _, _, _)
lowerBoundFrom(arr, target, lo, hi) ==
  IF lo < hi
  THEN LET mid == (lo + hi) \div 2
       IN IF arr[mid + 1] < target THEN lowerBoundFrom(arr, target, mid + 1, hi)
          ELSE lowerBoundFrom(arr, target, lo, mid)
  ELSE lo

lowerBound(arr, target) == lowerBoundFrom(arr, target, 0, Len(arr))

upperBound(arr, target) == upperBoundFrom(arr, target, 0, Len(arr))

closeOnOrBefore(chart, targetDate) ==
  IF Len(chart) = 0 THEN NoClose
  ELSE LET idx == upperBound([i \in 1..Len(chart) |-> chart[i].date], targetDate) - 1
       IN IF idx < 0 THEN NoClose
          ELSE IF chart[idx + 1].close <= 0 THEN NoClose
          ELSE chart[idx + 1]

\* the segments between consecutive runs only: no segment up to atDate, none
\* for a single run
BuildSegmentsBetween(runs, atDate) ==
  [i \in 1..(Len(runs) - 1) |-> [start |-> runs[i], endDate |-> runs[i + 1].date]]

\* the segments of a run history evaluated at atDate
BuildSegments(runs, atDate) ==
  LET n == Len(runs)
      asofPortfolioDate == runs[n].date
      between == [i \in 1..(n - 1) |->
                    [start |-> runs[i], endDate |-> runs[i + 1].date]]
  IN IF atDate > asofPortfolioDate
     THEN Append(between, [start |-> runs[n], endDate |-> atDate])
     ELSE IF Len(between) = 0
     THEN <<[start |-> runs[1], endDate |-> atDate]>>
     ELSE between

\* .sort()[0], taking the last of the sorted dates instead
MaxOf(S) == CHOOSE m \in S : \A x \in S : x <= m

\* .sort()[0]
MinOf(S) == CHOOSE m \in S : \A x \in S : m <= x

\* ((end.close / start.close) - 1) * 100
ReturnPct(start, end) == Rat(100 * (end.close - start.close), start.close)

RECURSIVE RatSum(_)
RatSum(seq) == IF seq = <<>> THEN <<0, 1>> ELSE RatAdd(Head(seq), RatSum(Tail(seq)))

\* segReturn = weightedSum / covered, dividing by the total weight instead
SegmentReturnOverTotal(weightedSum, covered) == RatMul(weightedSum, <<1, 100 * 100>>)

\* segReturn = weightedSum / covered
SegmentReturn(weightedSum, covered) == RatMul(weightedSum, <<1, covered>>)

\* nav *= ..., restarting from 100 at every segment
RestartNav(nav, segReturn) ==
  RatMul(<<100, 1>>, RatAdd(<<1, 1>>, RatMul(segReturn, <<1, 100>>)))

\* nav *= (1 + (segReturn / 100))
ChainNav(nav, segReturn) == RatMul(nav, RatAdd(<<1, 1>>, RatMul(segReturn, <<1, 100>>)))

\* minCoverage = covered, whatever it was
LatestCoverage(minCoverage, covered) == covered

\* minCoverage = minCoverage == null ? covered : Math.min(minCoverage, covered)
WeakestCoverage(minCoverage, covered) ==
  IF minCoverage < 0 THEN covered ELSE Min(minCoverage, covered)

\* if (benchOk) { ... }, entered again whenever both prices resolve
BenchOkAgain(benchOk, start, end) == start # NoClose /\ end # NoClose

\* if (benchOk) { if (!start || !end) benchOk = false; ... }: benchOk afterwards
BenchStillOk(benchOk, start, end) == benchOk /\ start # NoClose /\ end # NoClose

\* One pass of the loop body `for (const seg of segments)`: the leg, the aligned
\* window, covered and weightedSum, the benchmark, and the NAV update or the
\* no-data return.  startDate is seg.start.date, or the day before it for the
\* first segment of compute_daily_nav; skipNoWeight is part_007's weight filter.
SegmentPass(s, seg, startDate, charts, benchChart, skipNoWeight) ==
  LET holdings == seg.start.holdings
      startCandidate(i) == closeOnOrBefore(charts[holdings[i].ticker], startDate)
      endCandidate(i) == closeOnOrBefore(charts[holdings[i].ticker], seg.endDate)
      leg == {i \in 1..Len(holdings) :
                /\ ~(skipNoWeight /\ holdings[i].weight_pct <= 0)
                /\ startCandidate(i) # NoClose /\ endCandidate(i) # NoClose}
      benchStartCandidate == closeOnOrBefore(benchChart, startDate)
      benchEndCandidate == closeOnOrBefore(benchChart, seg.endDate)
      benchAligns ==
        s.benchOk /\ benchStartCandidate # NoClose /\ benchEndCandidate # NoClose
      earliestStart == MinOf({startCandidate(i).date : i \in leg})
      earliestEnd == MinOf({endCandidate(i).date : i \in leg})
      alignedEndDate ==
        IF benchAligns /\ benchEndCandidate.date < earliestEnd
        THEN benchEndCandidate.date ELSE earliestEnd
      alignedStart0 ==
        IF benchAligns /\ benchStartCandidate.date < earliestStart
        THEN benchStartCandidate.date ELSE earliestStart
      alignedStartDate ==
        IF alignedEndDate < alignedStart0 THEN alignedEndDate ELSE alignedStart0
      start(i) == closeOnOrBefore(charts[holdings[i].ticker], alignedStartDate)
      end(i) == closeOnOrBefore(charts[holdings[i].ticker], alignedEndDate)
      counted == {i \in leg : start(i) # NoClose /\ end(i) # NoClose}
      covered == SumSeq([i \in 1..Len(holdings) |->
                           IF i \in counted THEN holdings[i].weight_pct ELSE 0])
      weightedSum == RatSum([i \in 1..Len(holdings) |->
                               IF i \in counted
                               THEN RatMul(<<holdings[i].weight_pct, 1>>,
                                           ReturnPct(start(i), end(i)))
                               ELSE <<0, 1>>])
      benchStart == closeOnOrBefore(benchChart, alignedStartDate)
      benchEnd == closeOnOrBefore(benchChart, alignedEndDate)
      benchOk == BenchStillOk(s.benchOk, benchStart, benchEnd)
      benchNav ==
        IF benchOk THEN ChainNav(s.benchNav, ReturnPct(benchStart, benchEnd))
        ELSE s.benchNav
      segReturn == SegmentReturn(weightedSum, covered)
      passed == [counted |-> {holdings[i].ticker : i \in counted},
                 covered |-> covered, weightedSum |-> weightedSum,
                 segReturn |-> IF covered <= 0 THEN <<0, 1>> ELSE segReturn,
                 alignedStartDate |-> alignedStartDate,
                 alignedEndDate |-> alignedEndDate,
                 benchWasOk |-> s.benchOk, benchOk |-> benchOk,
                 benchNav |-> benchNav, startDate |-> startDate]
  IN IF leg = {}
     THEN [s EXCEPT !.pc = "done", !.failed = TRUE,
                    !.legs = Append(@, [counted |-> {}, covered |-> 0,
                                        weightedSum |-> <<0, 1>>, segReturn |-> <<0, 1>>,
                                        alignedStartDate |-> 0, alignedEndDate |-> 0,
                                        benchWasOk |-> s.benchOk,
                                        benchOk |-> s.benchOk,
                                        benchNav |-> s.benchNav,
                                        startDate |-> startDate])]
     ELSE IF covered <= 0
     THEN [s EXCEPT !.pc = "done", !.failed = TRUE, !.benchOk = benchOk,
                    !.benchNav = benchNav, !.legs = Append(@, passed)]
     ELSE [s EXCEPT !.next = @ + 1,
                    !.nav = ChainNav(s.nav, segReturn),
                    !.benchOk = benchOk, !.benchNav = benchNav,
                    !.minCoverage = WeakestCoverage(@, covered),
                    !.alignedAsOfDate = alignedEndDate,
                    !.legs = Append(@, passed)]

(***************************************************************************)
(* The inputs of the NAV calculator and its steps.                         *)
(***************************************************************************)
\* charts: closes of 1 and 2 over the days 1..MaxDay
ChartUp == [d \in 1..MaxDay |-> [date |-> d, close |-> IF d <= 2 THEN 1 ELSE 2]]
ChartDown == [d \in 1..MaxDay |-> [date |-> d, close |-> IF d <= 1 THEN 2 ELSE 1]]
\* no close after day 2
ChartStale == <<[date |-> 1, close |-> 1], [date |-> 2, close |-> 2]>>
\* no close before day 3
ChartLate ==
  [i \in 1..(MaxDay - 2) |-> [date |-> i + 2, close |-> IF i = 1 THEN 1 ELSE 2]]

Charts ==
  {f \in [NavTickers -> {ChartUp, ChartDown, ChartStale, ChartLate, NoChart}] :
     /\ f["TICK_A"] \in {ChartUp, ChartDown, ChartStale, NoChart}
     /\ f["TICK_B"] \in {ChartUp, ChartDown, ChartLate, NoChart}
     /\ f["TICK_C"] \in {ChartUp, NoChart}
     /\ f["SPY"] \in {ChartUp, ChartStale, ChartLate, NoChart}
     /\ f["BRK.B"] = NoChart /\ f["ZZZZ"] = NoChart}

Held(ticker, cents) == [ticker |-> ticker, weight_pct |-> cents]
OnlyA == <<Held("TICK_A", 10000)>>
OnlyB == <<Held("TICK_B", 10000)>>
Halves == <<Held("TICK_A", 5000), Held("TICK_B", 5000)>>
Thirds == <<Held("TICK_A", 3333), Held("TICK_B", 3333), Held("TICK_C", 3334)>>

\* run histories: none, one run, two runs with a switch of portfolio, or three
Histories ==
  {<<>>}
  \cup {<<[date |-> d, holdings |-> h]>> : d \in {1, 2}, h \in {OnlyA, OnlyB, Halves, Thirds}}
  \cup {<<[date |-> d[1], holdings |-> h[1]], [date |-> d[2], holdings |-> h[2]]>> :
          d \in {<<1, 2>>, <<1, 3>>, <<2, 3>>},
          h \in {<<OnlyA, OnlyB>>, <<Halves, OnlyB>>, <<Thirds, OnlyA>>, <<OnlyB, Thirds>>}}
  \cup {<<[date |-> 1, holdings |-> OnlyA], [date |-> 2, holdings |-> OnlyB],
          [date |-> 3, holdings |-> Halves]>>}

\* a NAV computation, the repair engines not run
InitNav ==
  /\ candidate = <<>> /\ context = Context(2, 10, 60, 60)
  /\ pe = PeStart(candidate) /\ be = BpStart
  /\ successfulRuns \in Histories
  /\ runDate \in 1..MaxDay
  /\ benchmarkTicker \in {"", "SPY"}
  /\ chartFor \in {f \in Charts : benchmarkTicker = "" => f["SPY"] = NoChart}
  /\ script \in {"performance_since_added", "compute_daily_nav"}
  /\ nv = NvStart
  /\ fetch = FetchDone
  /\ lookup = NoLookup
  /\ lane = NoLane

NvAt(pc, program) ==
  /\ nv.pc = pc /\ script = program /\ fetch.pc = "done"
  /\ UNCHANGED <<successfulRuns, runDate, chartFor, benchmarkTicker, script, fetch>>
  /\ UNCHANGED <<repairVars, lookup, lane>>

\* every run, also those after the date
RunsOfAnyDate(runs, date) == runs

\* .filter((d) => d <= runDate)
RunsUpTo(runs, date) == SelectSeq(runs, LAMBDA r : r.date <= date)

benchChartOf(ticker, charts) == IF ticker # "" THEN charts[ticker] ELSE NoChart

\* emptyResult(...), and in compute_daily_nav no entry for the date
NoData(s) == [s EXCEPT !.pc = "done", !.failed = TRUE, !.result = [data |-> FALSE]]

\* main of performance_since_added, from loadSuccessfulRuns to the segment loop
NavLoad(s, history, atDate, bench, charts) ==
  LET runs == RunsUpTo(history, atDate)
  IN IF Len(runs) = 0 THEN NoData(s)
     ELSE [s EXCEPT !.pc = "loop",
                    !.segments = BuildSegments(runs, atDate),
                    !.benchOk = bench # "" /\ charts[bench] # NoChart]

\* computeFundDaily for one target date, up to the segment loop
DailyLoad(s, history, atDate, bench) ==
  LET runsUpToDate == RunsUpTo(history, atDate)
  IN IF Len(history) = 0 \/ atDate < history[1].date \/ Len(runsUpToDate) = 0
     THEN NoData(s)
     ELSE [s EXCEPT !.pc = "loop",
                    !.segments = BuildSegments(runsUpToDate, atDate),
                    !.benchOk = bench # ""]

NavLoadRuns ==
  /\ NvAt("start", "performance_since_added")
  /\ nv' = NavLoad(nv, successfulRuns, runDate, benchmarkTicker, chartFor)

DailyLoadRuns ==
  /\ NvAt("start", "compute_daily_nav")
  /\ nv' = DailyLoad(nv, successfulRuns, runDate, benchmarkTicker)

SegmentResult(s) == IF s.failed THEN NoData(s) ELSE s

NavSegment ==
  /\ NvAt("loop", "performance_since_added") /\ nv.next <= Len(nv.segments)
  /\ LET seg == nv.segments[nv.next]
     IN nv' = SegmentResult(SegmentPass(nv, seg, seg.start.date, chartFor,
                                        benchChartOf(benchmarkTicker, chartFor), TRUE))

DailySegment ==
  /\ NvAt("loop", "compute_daily_nav") /\ nv.next <= Len(nv.segments)
  /\ LET seg == nv.segments[nv.next]
         startDate == IF nv.next = 1 THEN dayBefore(seg.start.date) ELSE seg.start.date
     IN nv' = SegmentResult(SegmentPass(nv, seg, startDate, chartFor,
                                        benchChartOf(benchmarkTicker, chartFor), FALSE))

\* the figures both programs report after the loop
Report(s) ==
  LET fundReturn == asPct(RatAdd(s.nav, <<-100, 1>>))
      benchmarkReturn == asPct(RatAdd(s.benchNav, <<-100, 1>>))
  IN [s EXCEPT !.pc = "done",
               !.result = [data |-> TRUE,
                           fund_return_pct |-> fundReturn,
                           covered_weight_pct |-> IF s.minCoverage < 0 THEN 0
                                                  ELSE s.minCoverage,
                           has_benchmark |-> s.benchOk,
                           benchmark_return_pct |-> IF s.benchOk THEN benchmarkReturn ELSE 0,
                           excess_return_pct |-> IF s.benchOk
                                                 THEN fundReturn - benchmarkReturn ELSE 0,
                           asof_price_date |-> s.alignedAsOfDate]]

NavReport ==
  /\ NvAt("loop", "performance_since_added") /\ nv.next > Len(nv.segments)
  /\ nv' = Report(nv)

DailyReport ==
  /\ NvAt("loop", "compute_daily_nav") /\ nv.next > Len(nv.segments)
  /\ nv' = Report(nv)

\* one step of a program on a history, a date, a benchmark and charts
NavStep(s, program, history, atDate, bench, charts) ==
  IF s.pc = "start"
  THEN IF program = "performance_since_added"
       THEN NavLoad(s, history, atDate, bench, charts)
       ELSE DailyLoad(s, history, atDate, bench)
  ELSE IF s.next <= Len(s.segments)
  THEN LET seg == s.segments[s.next]
           startDate == IF program = "compute_daily_nav" /\ s.next = 1
                        THEN dayBefore(seg.start.date) ELSE seg.start.date
       IN SegmentResult(SegmentPass(s, seg, startDate, charts,
                                    benchChartOf(bench, charts),
                                    program = "performance_since_added"))
  ELSE Report(s)

\* the program run to its end
RECURSIVE NavRun(_, _, _, _, _, _)
NavRun(s, program, history, atDate, bench, charts) ==
  IF s.pc = "done" THEN s
  ELSE NavRun(NavStep(s, program, history, atDate, bench, charts),
              program, history, atDate, bench, charts)

NextNav ==
  \/ NavLoadRuns \/ DailyLoadRuns \/ NavSegment \/ DailySegment
  \/ NavReport \/ DailyReport

SpecNav == InitNav /\ [][NextNav]_vars

(***************************************************************************)
(* unnamed/part_003 (index_performance), unnamed/part_007 and              *)
(* scripts/compute_daily_nav.mjs: the batch fetch.  mapWithConcurrency     *)
(* starts min(limit, items) workers that draw item indexes from a shared   *)
(* counter; the mapper fetches the ticker's chart under each spelling of   *)
(* symbolAliases in turn and writes the chartCache.  JavaScript runs every *)
(* stretch of code between two awaits without interruption, so a step of   *)
(* the model is one such stretch.                                          *)
(***************************************************************************)
\* a ticker as the pieces its spelling is made of, "." and "-" apart
Spelling(t) ==
  CASE t = "BRK.B" -> <<"BRK", ".", "B">>
    [] t = "" -> <<>>
    [] OTHER -> <<t>>

\* t.replace(/from/g, to)
Respell(pieces, from, to) ==
  [i \in 1..Len(pieces) |-> IF pieces[i] = from THEN to ELSE pieces[i]]

\* [...new Set(out)]
RECURSIVE Distinct(_)
Distinct(out) ==
  IF out = <<>> THEN <<>>
  ELSE LET front == Distinct(SubSeq(out, 1, Len(out) - 1))
           last == out[Len(out)]
       IN IF last \in Range(front) THEN front ELSE Append(front, last)

symbolAliases(raw) ==
  LET t == Spelling(raw)
      dotted == IF "." \in Range(t) THEN <<Respell(t, ".", "-")>> ELSE <<>>
      hyphened == IF "-" \in Range(t) THEN <<Respell(t, "-", ".")>> ELSE <<>>
  IN IF t = <<>> THEN <<>> ELSE Distinct(<<t>> \o dotted \o hyphened)

Symbols == UNION {Range(symbolAliases(t)) : t \in NavTickers}

\* the daily closes the price provider holds for a symbol, none for a symbol
\* it does not list (it lists the class share as BRK-B)
Market(symbol) ==
  CASE symbol = <<"TICK_A">> -> ChartUp
    [] symbol = <<"TICK_B">> -> ChartDown
    [] symbol = <<"TICK_C">> -> ChartUp
    [] symbol = <<"SPY">> -> ChartUp
    [] symbol = <<"BRK", "-", "B">> -> ChartDown
    [] OTHER -> NoChart

\* what one request for a symbol can bring: a network error, a non-2xx
\* response, a response without points, one whose closes are all invalid
\* (close 0 for a null close), or the provider's series led by a null close
Responses(symbol) ==
  {[kind |-> "network_error", points |-> <<>>],
   [kind |-> "not_ok", points |-> <<>>],
   [kind |-> "ok", points |-> <<>>],
   [kind |-> "ok", points |-> <<[date |-> 1, close |-> 0]>>]}
  \cup (IF Market(symbol) # NoChart
        THEN {[kind |-> "ok", points |-> <<[date |-> 0, close |-> 0]>> \o Market(symbol)]}
        ELSE {})

\* fetchYahooChart: null (NoChart) unless the response is ok and a close > 0
\* is left after the filter
fetchYahooChart(response) ==
  IF response.kind # "ok" THEN NoChart
  ELSE SelectSeq(response.points, LAMBDA p : p.close > 0)

\* the mappers that begin with `if (chartCache.has(cacheKey)) return`
HasGuard(program) == program \in {"index_performance", "performance_since_added"}

\* chartCache.set(cacheKey, chart)
CacheSet(f, ticker, chart) ==
  [f EXCEPT !.has = @ \cup {ticker}, !.value[ticker] = chart,
            !.written[ticker] = @ + 1]

\* fetchYahooChart(symbol, ...) is called: the request is under way
StartFetch(f, w, symbol) == [f EXCEPT !.fetched[symbol] = @ + 1]

\* mapper(items[i], i) up to its first await, or to its return
MapperCall(f, w, i, program) ==
  LET ticker == f.items[i + 1]
      aliases == symbolAliases(ticker)
      g == [f EXCEPT !.called[i + 1] = @ + 1]
  IN IF HasGuard(program) /\ ticker \in g.has
     THEN [g EXCEPT !.workers[w] = [pc |-> "awaiting", i |-> i, alias |-> 0]]
     ELSE IF aliases = <<>>
     THEN [CacheSet(g, ticker, NoChart)
             EXCEPT !.workers[w] = [pc |-> "awaiting", i |-> i, alias |-> 0]]
     ELSE [StartFetch(g, w, aliases[1])
             EXCEPT !.workers[w] = [pc |-> "fetching", i |-> i, alias |-> 1]]

\* one turn of worker's while (true), up to `await mapper(...)` or the return
WorkerLoop(f, w, program) ==
  LET i == f.index
      g == [f EXCEPT !.index = @ + 1]
  IN IF i >= Len(f.items)
     THEN [g EXCEPT !.workers[w] = [pc |-> "returned", i |-> i, alias |-> 0]]
     ELSE MapperCall(g, w, i, program)

\* Array.from({ length: n }, () => worker()): the workers started one after
\* the other, each running to its first await
RECURSIVE StartFrom(_, _, _)
StartFrom(f, w, program) ==
  IF w > Len(f.workers) THEN f
  ELSE StartFrom(WorkerLoop(f, w, program), w + 1, program)

\* mapWithConcurrency starting a worker for every item, whatever the limit
mapWithoutLimit(f, program) ==
  LET n == Max(1, Len(f.items))
      started == [f EXCEPT !.pc = "running",
                           !.workers = [w \in 1..n |->
                                          [pc |-> "new", i |-> -1, alias |-> 0]]]
  IN StartFrom(started, 1, program)

\* mapWithConcurrency(items, limit, mapper) up to `await Promise.all(...)`
mapWithConcurrency(f, program) ==
  LET n == Max(1, Min(f.limit, Len(f.items)))
      started == [f EXCEPT !.pc = "running",
                           !.workers = [w \in 1..n |->
                                          [pc |-> "new", i |-> -1, alias |-> 0]]]
  IN StartFrom(started, 1, program)

\* the await resumes, and a fetch without a chart ends the worker there
FetchSettledOrThrown(f, w, response) ==
  LET me == f.workers[w]
      ticker == f.items[me.i + 1]
      chart == fetchYahooChart(response)
  IN IF chart = NoChart
     THEN [f EXCEPT !.workers[w].pc = "returned"]
     ELSE [CacheSet([f EXCEPT !.served[symbolAliases(ticker)[me.alias]] = @ + 1],
                    ticker, chart)
             EXCEPT !.workers[w].pc = "awaiting"]

\* `chart = await fetchYahooChart(symbol, ...)` resumes with the chart of a
\* response: the next spelling is fetched, or the cache written
FetchSettled(f, w, response) ==
  LET me == f.workers[w]
      ticker == f.items[me.i + 1]
      aliases == symbolAliases(ticker)
      chart == fetchYahooChart(response)
      g == IF chart = NoChart THEN f
           ELSE [f EXCEPT !.served[aliases[me.alias]] = @ + 1]
  IN IF chart = NoChart /\ me.alias < Len(aliases)
     THEN [StartFetch(g, w, aliases[me.alias + 1])
             EXCEPT !.workers[w].alias = me.alias + 1]
     ELSE [CacheSet(g, ticker, chart) EXCEPT !.workers[w].pc = "awaiting"]

\* (ticker) => chartCache.get(key) || null, for every ticker
chartForOf(f) == [t \in NavTickers |-> IF t \in f.has THEN f.value[t] ELSE NoChart]

\* one entry of index_performance's outItems (has_return FALSE for the nulls)
IndexItem(f, ticker, endDate) ==
  LET chart == chartForOf(f)[ticker]
      start == closeOnOrBefore(chart, dayBefore(f.startDate))
      end == closeOnOrBefore(chart, endDate)
  IN IF start = NoClose \/ end = NoClose
     THEN [ticker |-> ticker, has_return |-> FALSE, return_pct |-> 0,
           asof_price_date |-> 0]
     ELSE [ticker |-> ticker, has_return |-> TRUE,
           return_pct |-> asPct(ReturnPct(start, end)),
           asof_price_date |-> end.date]

\* the tickers of a list of holdings lists, each once, in the order a Set
\* hands them out
TickerList(holdingsLists, benchmark) ==
  LET all == [i \in 1..Len(holdingsLists) |->
                [j \in 1..Len(holdingsLists[i]) |-> holdingsLists[i][j].ticker]]
      flat == IF Len(all) = 0 THEN <<>>
              ELSE IF Len(all) = 1 THEN all[1]
              ELSE all[1] \o all[2]
  IN Distinct(flat \o (IF benchmark # "" THEN <<benchmark>> ELSE <<>>))

WithClassShare == <<Held("TICK_A", 5000), Held("BRK.B", 5000)>>

\* the run histories whose charts are fetched
FetchHistories ==
  {<<[date |-> 2, holdings |-> h]>> : h \in {Halves, Thirds, WithClassShare}}
  \cup {<<[date |-> 2, holdings |-> Halves], [date |-> 3, holdings |-> OnlyB]>>,
        <<[date |-> 2, holdings |-> OnlyA], [date |-> 3, holdings |-> WithClassShare]>>}

\* the ticker lists of an indices file: a ticker may be listed twice, and the
\* last list is longer than the limit of 6 (ZZZZ is a ticker the provider
\* does not list)
IndexLists ==
  {<<"SPY">>, <<"SPY", "TICK_A">>, <<"BRK.B", "SPY">>, <<"SPY", "SPY">>,
   <<"SPY", "TICK_A", "SPY">>,
   <<"SPY", "ZZZZ", "ZZZZ", "ZZZZ", "ZZZZ", "ZZZZ", "SPY">>}

\* the batch about to be fetched
FetchCall(items, limit, startDate) ==
  [pc |-> "call", items |-> items, limit |-> limit, index |-> 0,
   workers |-> <<>>, has |-> {}, value |-> [t \in NavTickers |-> NoChart],
   fetched |-> [s \in Symbols |-> 0], served |-> [s \in Symbols |-> 0],
   written |-> [t \in NavTickers |-> 0],
   called |-> [i \in 1..Len(items) |-> 0],
   startDate |-> startDate, outItems |-> <<>>]

\* a program at its call of mapWithConcurrency
InitFetch ==
  /\ candidate = <<>> /\ context = Context(2, 10, 60, 60)
  /\ pe = PeStart(candidate) /\ be = BpStart
  /\ chartFor = [t \in NavTickers |-> NoChart]
  /\ nv = NvStart /\ lookup = NoLookup /\ lane = NoLane
  /\ runDate \in {3, 4}
  /\ script \in {"index_performance", "performance_since_added", "compute_daily_nav"}
  /\ \/ /\ script = "index_performance"
        /\ successfulRuns = <<>> /\ benchmarkTicker = ""
        /\ \E items \in IndexLists : fetch = FetchCall(items, 6, 2)
     \/ /\ script = "performance_since_added"
        /\ successfulRuns \in FetchHistories
        /\ benchmarkTicker \in {"", "SPY"}
        /\ LET segments == BuildSegments(RunsUpTo(successfulRuns, runDate), runDate)
           IN fetch = FetchCall(TickerList([i \in 1..Len(segments) |->
                                              segments[i].start.holdings],
                                           benchmarkTicker), 8, 0)
     \/ /\ script = "compute_daily_nav"
        /\ successfulRuns \in FetchHistories
        /\ benchmarkTicker \in {"", "SPY"}
        /\ fetch = FetchCall(TickerList([i \in 1..Len(successfulRuns) |->
                                           successfulRuns[i].holdings],
                                        benchmarkTicker), 8, 0)

FetchAt(pc) ==
  /\ fetch.pc = pc
  /\ UNCHANGED <<successfulRuns, runDate, benchmarkTicker, script, nv>>
  /\ UNCHANGED <<repairVars, lookup, lane>>

CallMapWithConcurrency ==
  /\ FetchAt("call") /\ UNCHANGED chartFor
  /\ fetch' = mapWithConcurrency(fetch, script)

FetchSettles ==
  /\ FetchAt("running") /\ UNCHANGED chartFor
  /\ \E w \in 1..Len(fetch.workers) :
       /\ fetch.workers[w].pc = "fetching"
       /\ LET me == fetch.workers[w]
              symbol == symbolAliases(fetch.items[me.i + 1])[me.alias]
          IN \E response \in Responses(symbol) :
               fetch' = FetchSettled(fetch, w, response)

WorkerResumes ==
  /\ FetchAt("running") /\ UNCHANGED chartFor
  /\ \E w \in 1..Len(fetch.workers) :
       /\ fetch.workers[w].pc = "awaiting"
       /\ fetch' = WorkerLoop(fetch, w, script)

AllReturned(f) == \A w \in 1..Len(f.workers) : f.workers[w].pc = "returned"

\* Promise.all resolves in a NAV program: chartFor reads the cache from now on
ChartsFetched ==
  /\ FetchAt("running") /\ AllReturned(fetch)
  /\ script \in {"performance_since_added", "compute_daily_nav"}
  /\ fetch' = [fetch EXCEPT !.pc = "done"]
  /\ chartFor' = chartForOf(fetch)

\* Promise.all resolves in index_performance: the items are reported
IndexReport ==
  /\ FetchAt("running") /\ AllReturned(fetch)
  /\ script = "index_performance"
  /\ fetch' = [fetch EXCEPT !.pc = "done",
                            !.outItems = [i \in 1..Len(fetch.items) |->
                                            IndexItem(fetch, fetch.items[i], runDate)]]
  /\ chartFor' = chartForOf(fetch)

NextFetch ==
  \/ CallMapWithConcurrency \/ FetchSettles \/ WorkerResumes
  \/ ChartsFetched \/ IndexReport
  \/ NavLoadRuns \/ DailyLoadRuns \/ NavSegment \/ DailySegment
  \/ NavReport \/ DailyReport

SpecFetch == InitFetch /\ [][NextFetch]_vars

(***************************************************************************)
(* closeOnOrBefore on its own: a chart as fetchYahooChart builds one from  *)
(* the provider's points (dates in ascending order, a date possibly twice, *)
(* closes > 0), or the empty one that stands for a missing chart, and a    *)
(* target date.                                                            *)
(***************************************************************************)
\* the longest chart looked up
MaxPoints == 3

\* the charts of up to MaxPoints points over the days 1..MaxDay
SortedCharts ==
  {c \in SeqUpTo([date : 1..MaxDay, close : {1, 2}], MaxPoints) :
     \A i \in 1..(Len(c) - 1) : c[i].date <= c[i + 1].date}

InitLookup ==
  /\ candidate = <<>> /\ context = Context(2, 10, 60, 60)
  /\ pe = PeStart(candidate) /\ be = BpStart
  /\ successfulRuns = <<>> /\ runDate = 1 /\ benchmarkTicker = "" /\ script = "none"
  /\ chartFor = [t \in NavTickers |-> NoChart]
  /\ nv = NvStart /\ fetch = FetchDone /\ lane = NoLane
  /\ \E chart \in SortedCharts, targetDate \in 0..(MaxDay + 1) :
       lookup = [pc |-> "called", chart |-> chart, targetDate |-> targetDate,
                 found |-> NoClose]

\* closeOnOrBefore(chart, targetDate) returns
CloseOnOrBefore ==
  /\ lookup.pc = "called"
  /\ lookup' = [lookup EXCEPT !.pc = "returned",
                              !.found = closeOnOrBefore(lookup.chart, lookup.targetDate)]
  /\ UNCHANGED <<repairVars, navVars, fetch, lane>>

NextLookup == CloseOnOrBefore

SpecLookup == InitLookup /\ [][NextLookup]_vars

(***************************************************************************)
(* scripts/run_fund_once.sh: the lane run.  A doc is what an agent attempt *)
(* prints: schema_ok says whether the fields the model leaves out          *)
(* (paper_only, run_date, fund_name, size_change_pct, constraints_check)   *)
(* pass the first jq filter of validate_json_output; the headline action,  *)
(* its tickers, target_portfolio and rebalance_actions are kept.  Weights  *)
(* are in micro-percent.  Dates are day numbers.                           *)
(***************************************************************************)
TRADE_ACTIONS == {"Add", "Trim", "Replace", "Do nothing"}
BROAD_INDEX_ETFS ==
  {"SPY", "IVV", "VOO", "VTI", "QQQ", "IWM", "DIA", "VT", "ACWI", "EFA", "EEM",
   "VEA", "IEFA", "IEMG"}
\* FD_MIN_SOURCE_URLS and FD_MAX_ERROR_RATIO (in millionths), by their defaults
FD_MIN_SOURCE_URLS == 6
FD_MAX_ERROR_RATIO == 350000
\* max_crypto_pct, by its default
MAX_CRYPTO_PCT == 10

SCHEMA_REASON == "JSON validation failed (schema or risk constraints)"
PORTFOLIO_REASON ==
  "Portfolio validation failed (positions, weights, sector, or crypto limits)"
NO_JSON_REASON == "stdout did not contain a valid JSON object"
POLICY_REASON == "Rebalance policy validation failed"
EXIT_REASON == "dexter run exited with a non-zero code"
NO_SCRATCHPAD_REASON == "Dexter scratchpad file was not produced"
NO_SEARCH_REASON ==
  "Dexter did not call required Financial Datasets tool (financial_search)"
COVERAGE_REASON == "Insufficient Financial Datasets source coverage"
ERROR_RATIO_REASON == "Financial Datasets error ratio too high"

\* minimum_days_between_rebalances
minimum_days_between_rebalances(cadence) ==
  CASE cadence = "daily" -> 1
    [] cadence = "weekly" -> 7
    [] cadence = "monthly" -> 30
    [] OTHER -> 0

\* the runs a lane run may take for the previous successful one: those of an
\* earlier date with a dexter_output.json and, if they have a run_meta.json,
\* the status success in it
SuccessfulBefore(runs, run_date) ==
  {i \in 1..Len(runs) :
     /\ runs[i].date < run_date
     /\ runs[i].output
     /\ runs[i].meta \in {"success", "none"}}

\* latest_successful_output_before_run: the index of the run found, 0 for none
latest_successful_output_before_run(runs, run_date) ==
  LET found == SuccessfulBefore(runs, run_date)
  IN IF found = {} THEN 0
     ELSE CHOOSE i \in found : \A j \in found : runs[j].date <= runs[i].date

\* rebalance_due as lines 246-266 compute it
rebalance_due(cadence, prev_output_date, run_date) ==
  LET min_rebalance_days == minimum_days_between_rebalances(cadence)
      days_candidate == run_date - prev_output_date
  IN ~(prev_output_date # 0 /\ min_rebalance_days > 0
       /\ days_candidate < min_rebalance_days)

ValidActionTickers(a) ==
  CASE a.action = "Add" -> a.add_ticker \notin {"", "UNKNOWN"}
    [] a.action \in {"Trim", "Replace"} ->
         /\ a.add_ticker \notin {"", "UNKNOWN"}
         /\ a.remove_ticker \notin {"", "UNKNOWN"}
         /\ a.add_ticker # a.remove_ticker
    [] OTHER -> TRUE

is_crypto(h) == h.sector = "Crypto"

\* validate_json_output: "" when the doc passes, else the reason it sets
validate_json_output(doc, k) ==
  LET p == doc.target_portfolio
      schema ==
        /\ doc.schema_ok
        /\ \A i \in 1..Len(doc.rebalance_actions) :
             /\ doc.rebalance_actions[i].action \in TRADE_ACTIONS
             /\ doc.rebalance_actions[i].action = "Add" =>
                  doc.rebalance_actions[i].remove_ticker = ""
             /\ ValidActionTickers(doc.rebalance_actions[i])
        /\ doc.action \in TRADE_ACTIONS
        /\ ValidActionTickers(doc)
        /\ Len(p) > 0
        /\ \A i \in 1..Len(p) : p[i].ticker # "UNKNOWN"
      portfolio ==
        /\ Len(p) = k.positions
        /\ \A i \in 1..Len(p) :
             /\ p[i].ticker \notin {"UNKNOWN", "CASH"}
             /\ p[i].sector # "UNKNOWN"
             /\ p[i].weight_pct >= k.minPositionPct - 100
             /\ p[i].weight_pct <= k.maxPositionPct + 100
             /\ p[i].ticker \notin BROAD_INDEX_ETFS
        /\ \A i, j \in 1..Len(p) : i # j => p[i].ticker # p[j].ticker
        /\ Total(p) >= 99 * PCT + 50 * CENT /\ Total(p) <= 100 * PCT + 50 * CENT
        /\ \A x \in SectorsOf(p) : SectorSum(p, x) <= k.maxSectorPct + 100
        /\ SumSeq([i \in 1..Len(p) |-> IF is_crypto(p[i]) THEN p[i].weight_pct ELSE 0])
             <= MAX_CRYPTO_PCT * PCT + 100
  IN IF ~schema THEN SCHEMA_REASON
     ELSE IF ~portfolio THEN PORTFOLIO_REASON
     ELSE ""

\* getWeight(asMap(portfolio), ticker)
getWeight(portfolio, ticker) ==
  LET at == {i \in 1..Len(portfolio) : portfolio[i].ticker = ticker}
  IN IF at = {} THEN 0
     ELSE portfolio[CHOOSE i \in at : \A j \in at : j <= i].weight_pct

\* the node program of validate_rebalance_policy: TRUE when it exits 0
PolicyAllows(prev, curr, rebalanceDue) ==
  LET keys == TickersOf(prev) \cup TickersOf(curr.target_portfolio)
      delta(t) == getWeight(curr.target_portfolio, t) - getWeight(prev, t)
      samePortfolio == \A t \in keys : Abs(delta(t)) <= CENT
      actionful == {i \in 1..Len(curr.rebalance_actions) :
                      curr.rebalance_actions[i].action # "Do nothing"}
      increased(t) == t \in keys /\ delta(t) > CENT
      decreased(t) == t \in keys /\ delta(t) < -CENT
      reflected(a) ==
        CASE a.action = "Add" -> a.add_ticker # "" /\ increased(a.add_ticker)
          [] a.action \in {"Trim", "Replace"} ->
               /\ a.add_ticker # "" /\ a.remove_ticker # ""
               /\ decreased(a.remove_ticker) /\ increased(a.add_ticker)
          [] OTHER -> TRUE
  IN IF ~rebalanceDue
     THEN curr.action = "Do nothing" /\ samePortfolio /\ actionful = {}
     ELSE IF curr.action = "Do nothing"
     THEN samePortfolio /\ actionful = {}
     ELSE IF samePortfolio \/ actionful = {} THEN FALSE
     ELSE IF curr.action = "Add"
     THEN curr.add_ticker # "" /\ curr.remove_ticker = "" /\ increased(curr.add_ticker)
     ELSE /\ reflected(curr)
          /\ \A i \in actionful : reflected(curr.rebalance_actions[i])
          /\ curr.action \in {"Trim", "Replace"}

\* validate_rebalance_policy judging a run that is not due as if it were
validate_policy_as_due(s, doc) ==
  IF s.prev_output_date = 0 THEN ""
  ELSE IF PolicyAllows(s.prev_output.target_portfolio, doc, TRUE) THEN ""
  ELSE POLICY_REASON

\* validate_rebalance_policy: "" when the doc passes, else the reason it sets
validate_rebalance_policy(s, doc) ==
  IF s.prev_output_date = 0 THEN ""
  ELSE IF PolicyAllows(s.prev_output.target_portfolio, doc, s.rebalance_due) THEN ""
  ELSE POLICY_REASON

\* rebalance_portfolio_if_possible on the file of a doc: the doc it rewrites,
\* ok FALSE when it exits 1
RebalanceDoc(doc, k) ==
  LET done == rebalance_portfolio_if_possible(doc.target_portfolio, k)
  IN [ok |-> done.exit = 0,
      doc |-> [doc EXCEPT !.target_portfolio = WrittenPortfolio(done, @),
                          !.corrected = done.exit = 0]]

(***************************************************************************)
(* The steps of the lane run.  An agent attempt is the one step whose      *)
(* outcome the script does not decide: the exit code of the agent, the doc *)
(* it printed (NoDoc for none) and the scratchpad it wrote (NoPad for      *)
(* none).  Three fields keep the lane's past for the cadence: last_change, *)
(* the date of the last successful run that changed the portfolio (0 for   *)
(* none), due_since, whether a run after it had rebalance_due true, and    *)
(* every_day, whether every date since has a successful run.               *)
(***************************************************************************)
NoDoc ==
  [json |-> FALSE, schema_ok |-> FALSE, action |-> "", add_ticker |-> "",
   remove_ticker |-> "", target_portfolio |-> <<>>, rebalance_actions |-> <<>>,
   corrected |-> FALSE]

NoPad ==
  [written |-> FALSE, financial_search |-> 0, financial_metrics |-> 0,
   source_urls |-> 0, errors |-> 0]

RETRIABLE == {SCHEMA_REASON, PORTFOLIO_REASON, NO_JSON_REASON, POLICY_REASON}

\* what the lines before the first agent attempt come to: "ok", or the
\* check that stops the script
PROLOGUES == {"ok", "usage", "config", "ensure_dexter"}

\* the script when it is called
LaneStart(cadence, run_date, runs) ==
  [pc |-> "args", prologue |-> "ok", cadence |-> cadence, run_date |-> run_date, runs |-> runs,
   prev_output_date |-> 0, prev_output |-> NoDoc, rebalance_due |-> TRUE,
   phase |-> "initial", status |-> "success", reason |-> "",
   retry_used |-> FALSE, retry_failed |-> FALSE, attempts |-> 0,
   doc |-> NoDoc, latest_pad |-> NoPad, scratchpad |-> NoPad,
   meta |-> "none", exit |-> -1,
   last_change |-> 0, due_since |-> FALSE, every_day |-> TRUE]

\* lines 144-190: the number of arguments, the config and prompt files, the
\* provider and the limits of the config; a failed check exits at once
CheckArgs(s) ==
  CASE s.prologue = "usage" -> [s EXCEPT !.pc = "done", !.exit = 64]
    [] s.prologue = "config" -> [s EXCEPT !.pc = "done", !.exit = 1]
    [] OTHER -> [s EXCEPT !.pc = "start"]

\* lines 246-266 and 285-293: the previous successful run, rebalance_due, the
\* files of an earlier call for this date removed, and ensure_dexter.sh, whose
\* failure ends the script under set -e
FindPrevious(s) ==
  LET i == latest_successful_output_before_run(s.runs, s.run_date)
      prev_output_date == IF i = 0 THEN 0 ELSE s.runs[i].date
      t == [s EXCEPT !.pc = "run",
                     !.prev_output_date = prev_output_date,
                     !.prev_output = IF i = 0 THEN NoDoc ELSE s.runs[i].doc,
                     !.rebalance_due = rebalance_due(s.cadence, prev_output_date, s.run_date)]
  IN IF s.prologue = "ensure_dexter" THEN [t EXCEPT !.pc = "done", !.exit = 1] ELSE t

Failed(s, reason) == [s EXCEPT !.status = "failed", !.reason = reason]

\* run_dexter_attempt
run_dexter_attempt(s, outcome, k) ==
  LET t == [s EXCEPT !.pc = "fix", !.doc = NoDoc, !.status = "success",
                     !.reason = "", !.attempts = @ + 1,
                     !.latest_pad = IF outcome.pad.written THEN outcome.pad ELSE @]
      u == [t EXCEPT !.doc = outcome.doc]
  IN IF outcome.exit # 0 THEN Failed(t, EXIT_REASON)
     ELSE IF ~outcome.doc.json THEN Failed(t, NO_JSON_REASON)
     ELSE IF validate_json_output(u.doc, k) # ""
     THEN Failed(u, validate_json_output(u.doc, k))
     ELSE IF validate_rebalance_policy(u, u.doc) # ""
     THEN Failed(u, validate_rebalance_policy(u, u.doc))
     ELSE u

\* lines 930-947: what attempt_rebalance_if_needed does with the outcome of
\* rebalance_portfolio_if_possible
Revalidate(s, fixed, k) ==
  LET t == [s EXCEPT !.doc = fixed.doc]
  IN IF ~fixed.ok THEN s
     ELSE IF validate_json_output(t.doc, k) # ""
     THEN [t EXCEPT !.reason = validate_json_output(t.doc, k)]
     ELSE IF validate_rebalance_policy(t, t.doc) # ""
     THEN [t EXCEPT !.reason = validate_rebalance_policy(t, t.doc)]
     ELSE [t EXCEPT !.status = "success", !.reason = ""]

\* attempt_rebalance_if_needed that trusts the corrected doc unchecked
attempt_rebalance_unchecked(s, k) ==
  IF s.status # "failed" \/ s.reason # PORTFOLIO_REASON \/ ~s.doc.json THEN s
  ELSE CHOOSE t \in {IF ~fixed.ok THEN s
                      ELSE [s EXCEPT !.doc = fixed.doc, !.status = "success",
                                     !.reason = ""] :
                        fixed \in {RebalanceDoc(s.doc, k)}} : TRUE

\* attempt_rebalance_if_needed; the correction runs once
attempt_rebalance_if_needed(s, k) ==
  IF s.status # "failed" \/ s.reason # PORTFOLIO_REASON \/ ~s.doc.json THEN s
  ELSE CHOOSE t \in {Revalidate(s, fixed, k) : fixed \in {RebalanceDoc(s.doc, k)}} : TRUE

\* copy_latest_scratchpad_since_start
copy_latest_scratchpad_since_start(s) ==
  IF ~s.latest_pad.written THEN s ELSE [s EXCEPT !.scratchpad = s.latest_pad]

\* the validation retry that is taken after every failed attempt, again and
\* again
AfterAttemptRetryingAgain(s, t) ==
  IF t.status = "failed" /\ t.reason \in RETRIABLE
  THEN [t EXCEPT !.pc = "run", !.phase = "validation_retry", !.retry_used = TRUE]
  ELSE [t EXCEPT !.pc = "scratchpad"]

\* lines 1013-1059, 1263-1268: where the script goes from t, the outcome of
\* attempt_rebalance_if_needed after an attempt that left s
AfterAttempt(s, t) ==
  LET u == [t EXCEPT !.retry_failed = t.status = "failed"]
  IN CASE s.phase = "initial" ->
            IF t.status = "failed" /\ t.reason \in RETRIABLE
            THEN [t EXCEPT !.pc = "run", !.phase = "validation_retry",
                           !.retry_used = TRUE]
            ELSE [t EXCEPT !.pc = "scratchpad"]
       [] s.phase = "validation_retry" -> [u EXCEPT !.pc = "scratchpad"]
       [] OTHER -> [copy_latest_scratchpad_since_start(u) EXCEPT !.pc = "final"]

\* lines 1239-1272 up to the tool-use retry
CheckScratchpad(s) ==
  LET t == copy_latest_scratchpad_since_start(s)
  IN IF t.status # "success" THEN [t EXCEPT !.pc = "final"]
     ELSE IF ~t.scratchpad.written
     THEN [Failed(t, NO_SCRATCHPAD_REASON) EXCEPT !.pc = "final"]
     ELSE IF t.scratchpad.financial_search = 0
     THEN [t EXCEPT !.pc = "run", !.phase = "tool_retry"]
     ELSE [t EXCEPT !.pc = "final"]

\* the ratio awk prints with %.6f, in millionths
fd_error_ratio(fd_errors, fd_source_urls) ==
  IF fd_errors + fd_source_urls <= 0 THEN 1000000
  ELSE RoundDiv(fd_errors * 1000000, fd_errors + fd_source_urls)

\* lines 1274-1298 without the financial_search requirement
CheckFinancialDatasetsWithoutSearch(s) ==
  LET t == [s EXCEPT !.pc = "write"]
      pad == s.scratchpad
  IN IF s.status # "success" THEN t
     ELSE IF ~pad.written THEN Failed(t, NO_SCRATCHPAD_REASON)
     ELSE IF pad.source_urls < FD_MIN_SOURCE_URLS THEN Failed(t, COVERAGE_REASON)
     ELSE IF fd_error_ratio(pad.errors, pad.source_urls) > FD_MAX_ERROR_RATIO
     THEN Failed(t, ERROR_RATIO_REASON)
     ELSE t

\* lines 1274-1298: the scratchpad, the financial_search call, the thresholds
CheckFinancialDatasets(s) ==
  LET t == [s EXCEPT !.pc = "write"]
      pad == s.scratchpad
  IN IF s.status # "success" THEN t
     ELSE IF ~pad.written THEN Failed(t, NO_SCRATCHPAD_REASON)
     ELSE IF pad.financial_search = 0 THEN Failed(t, NO_SEARCH_REASON)
     ELSE IF pad.source_urls < FD_MIN_SOURCE_URLS THEN Failed(t, COVERAGE_REASON)
     ELSE IF fd_error_ratio(pad.errors, pad.source_urls) > FD_MAX_ERROR_RATIO
     THEN Failed(t, ERROR_RATIO_REASON)
     ELSE t

\* lines 1300-1350: exit_code, run_meta.json, exit
WriteRunMeta(s) ==
  [s EXCEPT !.pc = "done", !.meta = s.status,
            !.exit = IF s.status = "success" THEN 0 ELSE 1]

(***************************************************************************)
(* The lanes, the agent's outputs and the lane run as a state machine.     *)
(***************************************************************************)
\* the caps of the lane: 2 positions, 10..60 each, 60 a sector
LaneContext == Context(2, 10, 60, 60)

Doc(action, add_ticker, remove_ticker, target_portfolio, rebalance_actions) ==
  [json |-> TRUE, schema_ok |-> TRUE, action |-> action, add_ticker |-> add_ticker,
   remove_ticker |-> remove_ticker, target_portfolio |-> target_portfolio,
   rebalance_actions |-> rebalance_actions, corrected |-> FALSE]

TradeOf(action, add_ticker, remove_ticker) ==
  [action |-> action, add_ticker |-> add_ticker, remove_ticker |-> remove_ticker]

Split(a, j) == <<Holding("AAPL", "Technology", a), Holding("JNJ", "Healthcare", j)>>

\* the portfolio of the previous successful run
Prior == Split(60, 40)

\* the docs an attempt may print: the prior portfolio held (exactly, within
\* the tolerance, with a weight over the cap that the correction brings back
\* to the prior, changed, or with an active trade listed), trades (one over a
\* cap), an Add, a doc that fails the schema, a doc with a holding too many
Hold == Doc("Do nothing", "", "", Prior, <<>>)
HoldNear ==
  Doc("Do nothing", "", "",
      <<[ticker |-> "AAPL", weight_pct |-> 60 * PCT - CENT, sector |-> "Technology"],
        [ticker |-> "JNJ", weight_pct |-> 40 * PCT + CENT, sector |-> "Healthcare"]>>,
      <<TradeOf("Do nothing", "", "")>>)
HoldOver == Doc("Do nothing", "", "", Split(70, 30), <<>>)
HoldChanged == Doc("Do nothing", "", "", Split(50, 50), <<>>)
HoldActive == Doc("Do nothing", "", "", Prior, <<TradeOf("Trim", "JNJ", "AAPL")>>)
TrimToHalves ==
  Doc("Trim", "JNJ", "AAPL", Split(50, 50), <<TradeOf("Trim", "JNJ", "AAPL")>>)
TrimOver ==
  Doc("Trim", "JNJ", "AAPL", Split(30, 70), <<TradeOf("Trim", "JNJ", "AAPL")>>)
AddUnchanged == Doc("Add", "AAPL", "", Prior, <<TradeOf("Add", "AAPL", "")>>)
BadSchema == [Hold EXCEPT !.schema_ok = FALSE]
Docs ==
  {Hold, HoldNear, HoldOver, HoldChanged, HoldActive, TrimToHalves, TrimOver,
   AddUnchanged, BadSchema}

Pad(financial_search, financial_metrics, source_urls, errors) ==
  [written |-> TRUE, financial_search |-> financial_search,
   financial_metrics |-> financial_metrics, source_urls |-> source_urls,
   errors |-> errors]

\* the scratchpads an attempt may write: both tools called, one of them not
\* called, too few source URLs, too many errors, errors just at the ratio
FullPad == Pad(2, 1, 6, 0)
Pads ==
  {FullPad, Pad(1, 0, 6, 0), Pad(0, 1, 6, 0), Pad(1, 1, 5, 0), Pad(1, 1, 6, 4),
   Pad(1, 1, 13, 7)}

Outcome(exit, doc, pad) == [exit |-> exit, doc |-> doc, pad |-> pad]

\* what an agent attempt may come to: a doc, no JSON in the output, a
\* non-zero exit (124 is the timeout)
Outcomes ==
  {Outcome(0, d, p) : d \in Docs \cup {NoDoc}, p \in Pads \cup {NoPad}}
    \cup {Outcome(e, NoDoc, p) : e \in {1, 124}, p \in {FullPad, NoPad}}

\* the runs directory of an earlier date
Run(date, meta, doc) == [date |-> date, meta |-> meta, output |-> doc.json, doc |-> doc]

\* the lanes that run on day 31, by cadence and earlier runs: a successful
\* run 1, 6, 7, 29 or 30 days before; no run; a failed run after a
\* successful one; a run that left an output and no run_meta.json; a failed
\* run alone
Lanes ==
  {<<"daily", <<Run(30, "success", Hold)>> >>,
   <<"weekly", <<Run(30, "success", Hold)>> >>,
   <<"weekly", <<Run(25, "success", Hold)>> >>,
   <<"weekly", <<Run(24, "success", Hold)>> >>,
   <<"monthly", <<Run(2, "success", Hold)>> >>,
   <<"monthly", <<Run(1, "success", Hold)>> >>,
   <<"quarterly", <<Run(30, "success", Hold)>> >>,
   <<"weekly", <<>> >>,
   <<"weekly", <<Run(24, "success", Hold), Run(30, "failed", HoldChanged)>> >>,
   <<"weekly", <<Run(30, "none", Hold)>> >>,
   <<"weekly", <<Run(30, "failed", NoDoc)>> >>}

\* a lane run on day 31
InitLane ==
  /\ candidate = <<>> /\ context = LaneContext
  /\ pe = PeStart(candidate) /\ be = BpStart
  /\ successfulRuns = <<>> /\ runDate = 1 /\ benchmarkTicker = "" /\ script = "none"
  /\ chartFor = [t \in NavTickers |-> NoChart]
  /\ nv = NvStart /\ fetch = FetchDone /\ lookup = NoLookup
  /\ \E l \in Lanes, p \in PROLOGUES :
       lane = [LaneStart(l[1], 31, l[2]) EXCEPT !.prologue = p]

LaneAt(pc) ==
  /\ lane.pc = pc
  /\ UNCHANGED <<repairVars, navVars, fetch, lookup>>

CheckArguments == LaneAt("args") /\ lane' = CheckArgs(lane)

FindPreviousRun == LaneAt("start") /\ lane' = FindPrevious(lane)

RunDexterAttempt ==
  /\ LaneAt("run")
  /\ \E outcome \in Outcomes : lane' = run_dexter_attempt(lane, outcome, context)

AttemptRebalance ==
  /\ LaneAt("fix")
  /\ \E t \in {attempt_rebalance_if_needed(lane, context)} : lane' = AfterAttempt(lane, t)

CopyScratchpad == LaneAt("scratchpad") /\ lane' = CheckScratchpad(lane)

FinancialDatasetsChecks == LaneAt("final") /\ lane' = CheckFinancialDatasets(lane)

WriteMeta == LaneAt("write") /\ lane' = WriteRunMeta(lane)

NextLane ==
  \/ CheckArguments \/ FindPreviousRun \/ RunDexterAttempt \/ AttemptRebalance
  \/ CopyScratchpad \/ FinancialDatasetsChecks \/ WriteMeta

SpecLane == InitLane /\ [][NextLane]_vars

(***************************************************************************)
(* A lane over the days: one call of the script on every calendar day.     *)
(* The agent keeps the previous portfolio, trades between the two splits,  *)
(* or fails.  Of the earlier runs the next call reads only the latest      *)
(* successful one, so that is the run kept.                                *)
(***************************************************************************)
EvenSplit == Split(50, 50)

\* the doc that holds the previous portfolio (the prior one on the first day)
KeepDoc(s) ==
  Doc("Do nothing", "", "",
      IF s.prev_output_date = 0 THEN Prior ELSE s.prev_output.target_portfolio, <<>>)

\* the doc that trades from the previous portfolio to the other split
TradeDoc(s) ==
  IF s.prev_output_date # 0 /\ s.prev_output.target_portfolio = EvenSplit
  THEN Doc("Trim", "AAPL", "JNJ", Prior, <<TradeOf("Trim", "AAPL", "JNJ")>>)
  ELSE TrimToHalves

DayOutcomes(s) ==
  {Outcome(0, KeepDoc(s), FullPad), Outcome(0, TradeDoc(s), FullPad),
   Outcome(1, NoDoc, NoPad)}

\* whether the successful run s changed the portfolio: the first portfolio
\* of the lane, or a weight that moved by more than 0.01
ChangedPortfolio(s) ==
  /\ s.meta = "success"
  /\ \/ s.prev_output_date = 0
     \/ \E t \in TickersOf(s.prev_output.target_portfolio)
                   \cup TickersOf(s.doc.target_portfolio) :
          Abs(getWeight(s.doc.target_portfolio, t)
                - getWeight(s.prev_output.target_portfolio, t)) > CENT

\* the call of the next day after the run s
NextDayStart(s) ==
  [LaneStart(s.cadence, s.run_date + 1,
             IF s.meta = "success"
             THEN <<Run(s.run_date, "success", [s.doc EXCEPT !.corrected = FALSE])>>
             ELSE s.runs)
     EXCEPT !.last_change = IF ChangedPortfolio(s) THEN s.run_date ELSE s.last_change,
            !.due_since = IF ChangedPortfolio(s) THEN FALSE
                          ELSE s.due_since \/ (s.last_change # 0 /\ s.rebalance_due),
            !.every_day = s.every_day /\ s.meta = "success"]

\* the first call of a lane: no earlier run
InitCadence ==
  /\ candidate = <<>> /\ context = LaneContext
  /\ pe = PeStart(candidate) /\ be = BpStart
  /\ successfulRuns = <<>> /\ runDate = 1 /\ benchmarkTicker = "" /\ script = "none"
  /\ chartFor = [t \in NavTickers |-> NoChart]
  /\ nv = NvStart /\ fetch = FetchDone /\ lookup = NoLookup
  /\ \E cadence \in {"daily", "weekly", "monthly"} : lane = LaneStart(cadence, 1, <<>>)

DayAttempt ==
  /\ LaneAt("run")
  /\ \E outcome \in DayOutcomes(lane) : lane' = run_dexter_attempt(lane, outcome, context)

NextDay ==
  /\ LaneAt("done")
  /\ lane.run_date < MaxRunDate
  /\ lane' = NextDayStart(lane)

NextCadence ==
  \/ CheckArguments \/ FindPreviousRun \/ DayAttempt \/ AttemptRebalance
  \/ CopyScratchpad \/ FinancialDatasetsChecks \/ WriteMeta \/ NextDay

SpecCadence == InitCadence /\ [][NextCadence]_vars

(***************************************************************************)
(* Properties of the repair engines.                                       *)
(***************************************************************************)
DistinctTickers(p) == \A i, j \in 1..Len(p) : i # j => p[i].ticker # p[j].ticker
KnownSectors(p) == \A i \in 1..Len(p) : p[i].sector \notin {"", "UNKNOWN"}
PositiveWeights(p) == \A i \in 1..Len(p) : p[i].weight_pct > 0
CountIn(p, sector) == Cardinality({i \in 1..Len(p) : p[i].sector = sector})

\* Some assignment of whole-basis-point weights to the candidate's holdings has
\* every weight in [min, max], every sector total <= max_sector and total 100.00.
\* The totals such assignments reach are every whole number from the least
\* (every weight at min) to the greatest (every sector filled to
\* min(count * max, max_sector)), because one basis point can be added at a time.
BpFeasible(p, k) ==
  LET capacity == [x \in SectorsOf(p) |->
                     Min(CountIn(p, x) * maxPositionBp(k), maxSectorBp(k))]
  IN /\ minWeightBp(k) <= maxPositionBp(k)
     /\ \A x \in SectorsOf(p) : CountIn(p, x) * minWeightBp(k) <= maxSectorBp(k)
     /\ Len(p) * minWeightBp(k) <= targetTotalBp
     /\ SumOver(capacity, SectorsOf(p)) >= targetTotalBp

WellFormedCandidate ==
  /\ Len(candidate) = context.positions
  /\ DistinctTickers(candidate) /\ KnownSectors(candidate) /\ PositiveWeights(candidate)

SectorsWithin(p, limit) == \A x \in SectorsOf(p) : SectorSum(p, x) <= limit

\* C1: for every well-formed candidate of exactly N holdings and every config
\* that some whole-basis-point assignment satisfies, the basis-point repair exits
\* 0, and the portfolio it writes has N holdings, every weight in [min, max],
\* every sector total <= max_sector and a total of exactly 100.00.
C1_FeasibleCandidateIsRepaired ==
  (be.pc = "done" /\ WellFormedCandidate /\ BpFeasible(candidate, context)) =>
    /\ be.exit = 0
    /\ LET written == WrittenPortfolio(be, candidate)
       IN /\ Len(written) = context.positions
          /\ TickersOf(written) = TickersOf(candidate)
          /\ \A i \in 1..Len(written) :
               /\ written[i].weight_pct >= context.minPositionPct
               /\ written[i].weight_pct <= context.maxPositionPct
          /\ SectorsWithin(written, context.maxSectorPct)
          /\ Total(written) = 100 * PCT

\* a feasible candidate that broke a cap, repaired: its weights were moved
C1_Witness ==
  /\ be.pc = "done" /\ WellFormedCandidate /\ BpFeasible(candidate, context)
  /\ be.exit = 0
  /\ ~SectorsWithin(candidate, context.maxSectorPct)
  /\ \E i \in 1..Len(candidate) : be.weightsBp[i] * CENT # candidate[i].weight_pct

\* C2: every portfolio enforcePortfolioConstraints returns without a
\* repair_fallback note has exactly context.positions holdings with pairwise
\* distinct tickers, no weight above max_position_pct + 0.01, no sector total
\* above max_sector_pct + 0.01, and weights summing to exactly 100.00.
C2_RepairedIsValid ==
  (pe.pc = "done" /\ pe.reason = "none") =>
    /\ Len(pe.portfolio) = context.positions
    /\ DistinctTickers(pe.portfolio)
    /\ \A i \in 1..Len(pe.portfolio) :
         pe.portfolio[i].weight_pct <= context.maxPositionPct + CENT
    /\ SectorsWithin(pe.portfolio, context.maxSectorPct + CENT)
    /\ Total(pe.portfolio) = 100 * PCT

\* the capacity the feasibility check computes: after merge and top-N trim
CapacityAfterTrim ==
  computeFeasibleCapacity(
    trimToTopPositions(mergeDuplicates(candidate), context.positions),
    context.maxPositionPct, context.maxSectorPct)

HasWeight ==
  LET kept == trimToTopPositions(mergeDuplicates(candidate), context.positions)
  IN Len(kept) > 0 /\ Total(kept) > 0

\* C5 as stated: whenever the capacity after de-duplication and trimming is
\* below 100, repair fails with infeasible_sector_capacity.
C5_LowCapacityIsInfeasible ==
  (pe.pc = "done" /\ CapacityAfterTrim < 100 * PCT) =>
    pe.reason = "infeasible_sector_capacity"

\* C5, amended: whenever the kept holdings are not empty, have a positive total
\* weight, and their capacity is below 100, repair fails with
\* infeasible_sector_capacity and returns the fallback, never a repaired
\* portfolio; ten holdings in two sectors of five against 20/30 have capacity 60.
C5_LowCapacityWithWeightIsInfeasible ==
  /\ (pe.pc = "done" /\ HasWeight /\ CapacityAfterTrim < 100 * PCT) =>
       /\ pe.reason = "infeasible_sector_capacity"
       /\ pe.portfolio = buildPortfolio(context.positions, context.maxPositionPct)
  /\ (pe.pc = "done" /\ <<candidate, context>> = TwoSectorsOfFive) =>
       /\ CapacityAfterTrim = 60 * PCT
       /\ pe.reason = "infeasible_sector_capacity"

\* the ten holdings in two sectors of five, failed
C5_Witness ==
  /\ pe.pc = "done" /\ <<candidate, context>> = TwoSectorsOfFive
  /\ HasWeight /\ CapacityAfterTrim < 100 * PCT
  /\ pe.reason = "infeasible_sector_capacity"

\* the blocks of enforcePortfolioConstraints: each has its action in Next, and
\* the two loops' actions (round or return) are complementary
PeBlocks ==
  {"merge", "trim", "normalize", "feasibility", "clip", "sectors", "redistribute",
   "total", "round", "reconcile", "validate"}

\* C6: on every input list (empty, total weight zero, duplicate tickers, more or
\* fewer than N holdings) enforcePortfolioConstraints runs on to its return, and
\* what it returns is either a portfolio without a reason code or the fallback
\* with exactly one of the three reason codes; an empty list and a total of zero
\* or less give empty_or_invalid_portfolio.
C6_AlwaysReturnsPortfolioOrReason ==
  /\ pe.pc \in PeBlocks \cup {"done"}
  /\ pe.pc = "done" =>
       /\ pe.reason \in REASONS \cup {"none"}
       /\ pe.reason \in REASONS =>
            pe.portfolio = buildPortfolio(context.positions, context.maxPositionPct)
       /\ pe.reason = "none" => Len(pe.portfolio) > 0 /\ Total(pe.portfolio) > 0
       /\ (Len(candidate) = 0 \/ Total(candidate) <= 0) <=>
            pe.reason = "empty_or_invalid_portfolio"

\* the engine returned on a list with a duplicate ticker and no weight at all
C6_Witness ==
  /\ pe.pc = "done" /\ pe.reason = "empty_or_invalid_portfolio"
  /\ Len(candidate) >= 2 /\ ~DistinctTickers(candidate) /\ Total(candidate) = 0

\* every reordering of a list of n holdings
Reorderings(n) == {f \in [1..n -> 1..n] : \A i, j \in 1..n : i # j => f[i] # f[j]}

\* C7: two candidates with the same holdings in a different order are repaired by
\* rebalance_portfolio_if_possible to the same outcome and the same weight for
\* every ticker.
C7_OrderIndependent ==
  (be.pc = "done" /\ Len(candidate) <= MaxLen) =>
    \A f \in Reorderings(Len(candidate)) :
      LET reordered == [i \in 1..Len(candidate) |-> candidate[f[i]]]
          other == rebalance_portfolio_if_possible(reordered, context)
      IN /\ other.exit = be.exit
         /\ be.exit = 0 =>
              \A i \in 1..Len(candidate) : other.weightsBp[i] = be.weightsBp[f[i]]

\* a portfolio that already satisfies every constraint
StrictlyValid(p, k) ==
  /\ Len(p) = k.positions
  /\ DistinctTickers(p) /\ KnownSectors(p)
  /\ \A i \in 1..Len(p) :
       /\ p[i].weight_pct % CENT = 0
       /\ p[i].weight_pct >= k.minPositionPct /\ p[i].weight_pct <= k.maxPositionPct
  /\ SectorsWithin(p, k.maxSectorPct)
  /\ Total(p) = 100 * PCT

\* C8: a portfolio that already satisfies every constraint is returned with every
\* weight unchanged by enforcePortfolioConstraints (and without a fallback) and
\* by rebalance_portfolio_if_possible (which exits 0).
C8_ValidPortfolioUnchanged ==
  StrictlyValid(candidate, context) =>
    /\ pe.pc = "done" => pe.reason = "none" /\ pe.portfolio = candidate
    /\ be.pc = "done" => be.exit = 0 /\ WrittenPortfolio(be, candidate) = candidate

\* both engines returned on a valid portfolio that is not the equal-weight one
C8_Witness ==
  /\ StrictlyValid(candidate, context)
  /\ pe.pc = "done" /\ be.pc = "done"
  /\ \E i, j \in 1..Len(candidate) : candidate[i].weight_pct # candidate[j].weight_pct

Merged == mergeDuplicates(candidate)
MoreThanN == Len(Merged) > context.positions

\* g is kept before h: the higher weight, equal weights by ascending ticker
Outranks(g, h) ==
  \/ g.weight_pct > h.weight_pct
  \/ g.weight_pct = h.weight_pct /\ Rank(g.ticker) < Rank(h.ticker)

\* the N holdings of the de-duplicated candidate that fewer than N others outrank
TopN ==
  {h \in Range(Merged) :
     Cardinality({g \in Range(Merged) : Outranks(g, h)}) < context.positions}
Dropped == TickersOf(Merged) \ {h.ticker : h \in TopN}

\* C9 as stated: when the de-duplicated candidate has more than N holdings, no
\* dropped ticker appears in what repair returns.
C9_NoDroppedTickerReturned ==
  (pe.pc = "done" /\ MoreThanN) => TickersOf(pe.portfolio) \cap Dropped = {}

\* C9, amended: when the de-duplicated candidate has more than N holdings, the
\* engine goes on with exactly the N of highest weight (ties by ascending
\* ticker), scales them to sum to 100 before it applies any cap, and unless it
\* falls back returns exactly these N tickers and none of the dropped ones; the
\* twelve proposed against N = 10 keep the top ten.
C9_KeepsTopNThenNormalizes ==
  MoreThanN =>
    /\ (pe.pc \notin {"merge", "trim"} /\ pe.reason = "none") =>
         /\ Len(pe.portfolio) = context.positions
         /\ {[ticker |-> h.ticker, sector |-> h.sector] : h \in Range(pe.portfolio)}
              = {[ticker |-> h.ticker, sector |-> h.sector] : h \in TopN}
         /\ TickersOf(pe.portfolio) \cap Dropped = {}
         /\ TRIM_NOTE \in pe.notes
    /\ pe.pc = "normalize" => Range(pe.portfolio) = TopN
    /\ pe.pc \in {"feasibility", "clip"} =>
         /\ \A i \in 1..Len(pe.portfolio) : \E h \in TopN :
              /\ h.ticker = pe.portfolio[i].ticker
              /\ pe.portfolio[i].weight_pct
                   = MulDiv(h.weight_pct, 100 * PCT, SumOver([g \in TopN |-> g.weight_pct], TopN))
         /\ Abs(Total(pe.portfolio) - 100 * PCT) <= Len(pe.portfolio)
    /\ (pe.pc = "done" /\ <<candidate, context>> = TwelveForTen) =>
         /\ pe.reason = "none"
         /\ TickersOf(pe.portfolio) =
              {"AAPL", "MSFT", "JNJ", "UNH", "XOM", "GE", "JPM", "V", "COST", "NEE"}

\* twelve proposed, the top ten returned, a tie at the cut resolved by ticker
C9_Witness ==
  /\ pe.pc = "done" /\ pe.reason = "none" /\ MoreThanN
  /\ <<candidate, context>> = TwelveForTen
  /\ Dropped = {"PG", "LIN"}

\* the steps enforcePortfolioConstraints has left: blocks to go, and inside a
\* loop the rounds its bound still allows
PeBlockOrder ==
  <<"merge", "trim", "normalize", "feasibility", "clip", "sectors", "redistribute",
    "total", "redistribute", "round", "reconcile", "validate", "done">>
PeBlockIndex(s) ==
  IF s.pc = "redistribute" THEN (IF s.call = 1 THEN 7 ELSE 9)
  ELSE CHOOSE i \in 1..Len(PeBlockOrder) : PeBlockOrder[i] = s.pc
PeVariant(s) ==
  (Len(PeBlockOrder) - PeBlockIndex(s)) * (MAX_RECONCILE_STEPS + 1)
  + (IF s.pc = "redistribute" THEN MAX_REDISTRIBUTE_ROUNDS - s.iter
     ELSE IF s.pc = "reconcile" THEN MAX_RECONCILE_STEPS - s.iter ELSE 0)

\* the steps rebalance_portfolio_if_possible has left: phases to go, in the
\* sector loop the rounds left, in distribute the steps left
BpPhase(s) ==
  CASE s.pc = "parse" -> 0
    [] s.pc = "clip" -> 1
    [] s.pc = "balance1" -> 2
    [] s.pc = "distribute" /\ s.ret = "sectors" /\ s.iter = 0 -> 3
    [] s.pc = "distribute" /\ s.ret = "sectors" /\ s.iter > 0 -> 4
    [] s.pc = "sectors" -> 4
    [] s.pc = "balance2" -> 5
    [] s.pc = "distribute" /\ s.ret = "final" -> 6
    [] s.pc = "final" -> 7
    [] OTHER -> 8
BpVariant(s) ==
  (8 - BpPhase(s)) * ((MAX_SECTOR_ROUNDS + 1) * (MAX_DISTRIBUTE_STEPS + 2))
  + (IF BpPhase(s) = 4
     THEN (MAX_SECTOR_ROUNDS - s.iter) * (MAX_DISTRIBUTE_STEPS + 2) ELSE 0)
  + (IF s.pc = "distribute" THEN 1 + MAX_DISTRIBUTE_STEPS - s.guard ELSE 0)

LoopsWithinBounds ==
  /\ pe.pc = "redistribute" => pe.iter <= MAX_REDISTRIBUTE_ROUNDS
  /\ pe.pc = "reconcile" => pe.iter <= MAX_RECONCILE_STEPS
  /\ be.guard <= MAX_DISTRIBUTE_STEPS
  /\ be.iter <= MAX_SECTOR_ROUNDS
  /\ PeVariant(pe) >= 0 /\ BpVariant(be) >= 0

StepConsumes ==
  /\ PeVariant(pe') + BpVariant(be') < PeVariant(pe) + BpVariant(be)
  /\ (pe'.pc = "redistribute" /\ pe.pc = "redistribute") => pe'.iter = pe.iter + 1
  /\ (pe'.pc = "reconcile" /\ pe.pc = "reconcile") => pe'.iter = pe.iter + 1
  /\ (be'.pc = "distribute" /\ be.pc = "distribute") => be'.guard = be.guard + 1
  /\ (be'.pc = "distribute" /\ be.pc = "sectors") => be'.iter = be.iter + 1

\* C10: both engines terminate on every input: the redistribution loop runs at
\* most 80 rounds, reconciliation at most 500 steps, distribute at most 20000
\* steps, the sector loop at most 12 rounds, and every step of either engine
\* either leaves a block for a later one or uses up one round of its loop's
\* bound, so the count of steps left falls with every step and never below 0.
C10_EveryStepConsumesABound == [](LoopsWithinBounds) /\ [][StepConsumes]_vars

\* the sector loop and, inside it, the distribute loop have both gone round
C10_Witness ==
  /\ pe.pc = "done" /\ be.pc = "distribute" /\ be.guard >= 1 /\ be.iter >= 1
  /\ BpFeasible(candidate, context)

(***************************************************************************)
(* Properties of the NAV calculator.                                       *)
(***************************************************************************)
\* the product over the passed segments of (1 + segment_return / 100)
RECURSIVE ChainProduct(_)
ChainProduct(legs) ==
  IF legs = <<>> THEN <<1, 1>>
  ELSE RatMul(RatAdd(<<1, 1>>, RatMul(Head(legs).segReturn, <<1, 100>>)),
              ChainProduct(Tail(legs)))

Reported == nv.pc = "done" /\ nv.result.data

\* the fund held 100% TICK_A, then switched to 100% TICK_B
SwitchedAToB ==
  /\ Len(nv.segments) = 2
  /\ nv.segments[1].start.holdings = OnlyA /\ nv.segments[2].start.holdings = OnlyB

\* end.close / start.close of a ticker between two dates
Growth(ticker, from, to) ==
  <<closeOnOrBefore(chartFor[ticker], to).close,
    closeOnOrBefore(chartFor[ticker], from).close>>

\* C3: the reported fund return is round2((product over the segments, in date
\* order, of (1 + segment_return/100) - 1) * 100), the chain starting from
\* nav = 100; for a fund that held 100% TICK_A and then 100% TICK_B it is
\* TICK_A's growth over the first segment times TICK_B's over the second.
C3_FundReturnChainsSegments ==
  Reported =>
    /\ Len(nv.legs) = Len(nv.segments)
    /\ \A k \in 1..(Len(nv.segments) - 1) :
         nv.segments[k].start.date < nv.segments[k + 1].start.date
    /\ nv.nav = RatMul(<<100, 1>>, ChainProduct(nv.legs))
    /\ nv.result.fund_return_pct =
         asPct(RatMul(<<100, 1>>, RatAdd(ChainProduct(nv.legs), <<-1, 1>>)))
    /\ SwitchedAToB =>
         nv.nav = RatMul(<<100, 1>>,
                    RatMul(Growth("TICK_A", nv.legs[1].alignedStartDate,
                                  nv.legs[1].alignedEndDate),
                           Growth("TICK_B", nv.legs[2].alignedStartDate,
                                  nv.legs[2].alignedEndDate)))

\* TICK_A then TICK_B reported, and TICK_B alone over the whole window would
\* have given another figure
C3_Witness ==
  /\ Reported /\ SwitchedAToB
  /\ closeOnOrBefore(chartFor["TICK_B"], nv.legs[1].alignedStartDate) # NoClose
  /\ nv.result.fund_return_pct #
       asPct(RatMul(<<100, 1>>,
                    RatAdd(Growth("TICK_B", nv.legs[1].alignedStartDate,
                                  nv.legs[2].alignedEndDate), <<-1, 1>>)))
  /\ nv.legs[1].segReturn # <<0, 1>> /\ nv.legs[2].segReturn # <<0, 1>>

\* the holding's prices at both aligned dates of a passed segment resolve
Resolves(ticker, leg) ==
  /\ closeOnOrBefore(chartFor[ticker], leg.alignedStartDate) # NoClose
  /\ closeOnOrBefore(chartFor[ticker], leg.alignedEndDate) # NoClose

\* weight * return of every resolving holding, summed
WeightedReturn(holdings, leg) ==
  RatSum([i \in 1..Len(holdings) |->
            IF Resolves(holdings[i].ticker, leg)
            THEN LET g == Growth(holdings[i].ticker, leg.alignedStartDate,
                                 leg.alignedEndDate)
                 IN Rat(holdings[i].weight_pct * 100 * (g[1] - g[2]), g[2])
            ELSE <<0, 1>>])

\* C4: in every segment a holding adds its weight to covered_weight and weight *
\* return to weighted_return exactly if its prices at both aligned dates
\* resolve, and segment_return = weighted_return / covered_weight; of three
\* equal-weighted holdings with one unpriced, two thirds of the weight are
\* covered and the return is the weight-average of the other two; a segment with
\* covered_weight 0 makes the computation return no data.
C4_CoveredHoldingsOnly ==
  /\ \A k \in 1..Len(nv.legs) :
       LET leg == nv.legs[k]
           holdings == nv.segments[k].start.holdings
           resolving == {i \in 1..Len(holdings) : Resolves(holdings[i].ticker, leg)}
       IN /\ leg.counted = {holdings[i].ticker : i \in resolving}
          /\ leg.covered = SumSeq([i \in 1..Len(holdings) |->
                                     IF i \in resolving THEN holdings[i].weight_pct ELSE 0])
          /\ leg.weightedSum = WeightedReturn(holdings, leg)
          /\ leg.covered > 0 =>
               leg.segReturn = Rat(leg.weightedSum[1], leg.weightedSum[2] * leg.covered)
          /\ (holdings = Thirds /\ leg.counted = {"TICK_A", "TICK_B"}) =>
               /\ leg.covered = 6666
               /\ leg.segReturn =
                    RatMul(<<1, 2>>,
                           RatAdd(ReturnPct(closeOnOrBefore(chartFor["TICK_A"], leg.alignedStartDate),
                                            closeOnOrBefore(chartFor["TICK_A"], leg.alignedEndDate)),
                                  ReturnPct(closeOnOrBefore(chartFor["TICK_B"], leg.alignedStartDate),
                                            closeOnOrBefore(chartFor["TICK_B"], leg.alignedEndDate))))
          /\ leg.covered = 0 => nv.pc = "done" /\ ~nv.result.data
  /\ Reported =>
       /\ Len(nv.legs) = Len(nv.segments)
       /\ \A k \in 1..Len(nv.legs) : nv.legs[k].covered > 0
       /\ nv.result.covered_weight_pct = MinOf({nv.legs[k].covered : k \in 1..Len(nv.legs)})

\* three equal-weighted holdings, TICK_C without prices: two thirds covered
C4_Witness ==
  /\ Reported /\ Len(nv.legs) = 1
  /\ nv.segments[1].start.holdings = Thirds
  /\ chartFor["TICK_C"] = NoChart
  /\ nv.legs[1].counted = {"TICK_A", "TICK_B"}
  /\ nv.result.covered_weight_pct = 6666
  /\ nv.legs[1].segReturn # <<0, 1>>


\* the dates of a series that are on or before a day
DatesUpTo(chart, day) == {chart[i].date : i \in {j \in 1..Len(chart) : chart[j].date <= day}}

\* the greatest of a non-empty set of days
Latest(days) == CHOOSE m \in days : \A x \in days : x <= m

\* the start boundary of the k-th segment
BoundaryStart(k) ==
  IF script = "compute_daily_nav" /\ k = 1
  THEN nv.segments[k].start.date - 1 ELSE nv.segments[k].start.date

\* a series has a close on or before both boundaries of the k-th segment
ResolvesBoth(chart, k) ==
  /\ DatesUpTo(chart, BoundaryStart(k)) # {}
  /\ DatesUpTo(chart, nv.segments[k].endDate) # {}

\* the series the k-th segment aligns on: the charts of its holdings that
\* resolved both prices, and the benchmark's while it was still available
IncludedSeries(k) ==
  {chartFor[h.ticker] : h \in {g \in Range(nv.segments[k].start.holdings) :
                                 ResolvesBoth(chartFor[g.ticker], k)}}
  \cup (IF nv.legs[k].benchWasOk /\ ResolvesBoth(chartFor[benchmarkTicker], k)
        THEN {chartFor[benchmarkTicker]} ELSE {})

\* the segments that had a holding to align on
AlignedSegments ==
  {k \in 1..Len(nv.legs) :
     \E h \in Range(nv.segments[k].start.holdings) : ResolvesBoth(chartFor[h.ticker], k)}

\* C11: in every segment the aligned start date is the earliest resolved start
\* date and the aligned end date the earliest resolved end date over the
\* holdings that resolved both prices and the benchmark while it is available;
\* so the aligned end date is never later than the last price date of any
\* included series, nor than the end date any of them resolved.
C11_WindowIsEarliestResolved ==
  \A k \in AlignedSegments :
    LET leg == nv.legs[k]
        starts == {Latest(DatesUpTo(c, BoundaryStart(k))) : c \in IncludedSeries(k)}
        ends == {Latest(DatesUpTo(c, nv.segments[k].endDate)) : c \in IncludedSeries(k)}
    IN /\ leg.alignedStartDate \in starts
       /\ \A d \in starts : leg.alignedStartDate <= d
       /\ leg.alignedEndDate \in ends
       /\ \A d \in ends : leg.alignedEndDate <= d
       /\ \A c \in IncludedSeries(k) : leg.alignedEndDate <= c[Len(c)].date

\* a reported segment of two holdings, one series ending before the segment
\* does and one running on: the window ends with the stale one
C11_Witness ==
  /\ Reported
  /\ \E k \in AlignedSegments :
       /\ Cardinality(IncludedSeries(k)) >= 2
       /\ nv.legs[k].alignedEndDate < nv.segments[k].endDate
       /\ \E c \in IncludedSeries(k) : c[Len(c)].date > nv.legs[k].alignedEndDate


\* the benchmark has no close on or before an aligned date of the k-th segment
BenchmarkUnresolved(k) ==
  \/ benchmarkTicker = ""
  \/ DatesUpTo(chartFor[benchmarkTicker], nv.legs[k].alignedStartDate) = {}
  \/ DatesUpTo(chartFor[benchmarkTicker], nv.legs[k].alignedEndDate) = {}

\* benchNav on entry to the k-th segment
BenchNavBefore(k) == IF k = 1 THEN <<100, 1>> ELSE nv.legs[k - 1].benchNav

\* C12: once the benchmark return cannot be resolved for a segment, the
\* benchmark is unavailable in that and every later segment, the benchmark NAV
\* is never updated again, and the report carries no benchmark return and no
\* excess return, even if the benchmark's prices resolve in a later segment.
C12_BenchmarkStaysUnavailable ==
  \A k \in AlignedSegments :
    BenchmarkUnresolved(k) =>
      /\ \A j \in k..Len(nv.legs) :
           ~nv.legs[j].benchOk /\ nv.legs[j].benchNav = BenchNavBefore(k)
      /\ nv.benchNav = BenchNavBefore(k) /\ ~nv.benchOk
      /\ Reported =>
           /\ ~nv.result.has_benchmark
           /\ nv.result.benchmark_return_pct = 0 /\ nv.result.excess_return_pct = 0

\* reported after the benchmark failed to resolve in the first segment and
\* had prices at both aligned dates of the second, which moved
C12_Witness ==
  /\ Reported /\ Len(nv.legs) = 2 /\ benchmarkTicker # ""
  /\ BenchmarkUnresolved(1) /\ ~BenchmarkUnresolved(2)
  /\ Growth(benchmarkTicker, nv.legs[2].alignedStartDate, nv.legs[2].alignedEndDate)
       \notin {<<1, 1>>, <<2, 2>>}


\* the close of a series on the latest of its dates on or before a day
CloseAt(chart, day) ==
  LET last == Latest(DatesUpTo(chart, day))
  IN (CHOOSE p \in Range(chart) : p.date = last).close

\* the date of the first Snapshot of the computation
Inception == nv.segments[1].start.date

\* C14: in computeFundDaily the first segment's start boundary is the calendar
\* day before the first Snapshot's date and every later segment starts on its
\* own Snapshot's date; so a first holding set of one ticker, with no
\* benchmark to align on, is entered at that ticker's latest close on or
\* before the day before inception.
C14_FirstSegmentStartsDayBefore ==
  script = "compute_daily_nav" =>
    \A k \in 1..Len(nv.legs) :
      /\ nv.legs[k].startDate =
           (IF k = 1 THEN Inception - 1 ELSE nv.segments[k].start.date)
      /\ (k = 1 /\ k \in AlignedSegments) =>
           /\ nv.legs[1].alignedStartDate <= Inception - 1
           /\ \A t \in {"TICK_A", "TICK_B"} :
                (nv.segments[1].start.holdings = <<Held(t, 10000)>>
                   /\ ~nv.legs[1].benchWasOk)
                  => nv.legs[1].segReturn =
                       Rat(100 * (CloseAt(chartFor[t], nv.segments[1].endDate)
                                    - CloseAt(chartFor[t], Inception - 1)),
                           CloseAt(chartFor[t], Inception - 1))

\* computeFundDaily reported a one-ticker first segment whose close on the day
\* before inception differs from the close on the inception day
C14_Witness ==
  /\ script = "compute_daily_nav" /\ Reported /\ ~nv.legs[1].benchWasOk
  /\ \E t \in {"TICK_A", "TICK_B"} :
       /\ nv.segments[1].start.holdings = <<Held(t, 10000)>>
       /\ DatesUpTo(chartFor[t], Inception) # {}
       /\ CloseAt(chartFor[t], Inception - 1) # CloseAt(chartFor[t], Inception)

\* the number of Snapshots dated on or before the evaluation date
SnapshotsUpToDate ==
  Cardinality({i \in 1..Len(successfulRuns) : successfulRuns[i].date <= runDate})

\* the calculator has built its segment list
SegmentsBuilt == nv.pc = "loop" \/ nv.segments # <<>>

\* C15: for k >= 1 Snapshots dated on or before the evaluation date D the
\* calculator builds one segment for each consecutive pair, from Snapshot[i]'s
\* date to Snapshot[i+1]'s with Snapshot[i]'s holdings, plus a last one from
\* the last Snapshot's date to D when D is later; a single Snapshot evaluated
\* on its own date gives exactly one segment, and the list is never empty.
C15_SegmentsFollowSnapshots ==
  (nv.pc # "start" /\ SnapshotsUpToDate >= 1) =>
    LET k == SnapshotsUpToDate
        later == runDate > successfulRuns[k].date
    IN /\ SegmentsBuilt /\ Len(nv.segments) >= 1
       /\ Len(nv.segments) = IF later THEN k ELSE IF k = 1 THEN 1 ELSE k - 1
       /\ \A i \in 1..(k - 1) :
            /\ nv.segments[i].start = successfulRuns[i]
            /\ nv.segments[i].endDate = successfulRuns[i + 1].date
       /\ (later \/ k = 1) =>
            /\ nv.segments[k].start = successfulRuns[k]
            /\ nv.segments[k].endDate = runDate

\* two Snapshots and a later evaluation date: a segment between the two and
\* one from the second to the evaluation date
C15_Witness ==
  /\ nv.pc = "loop" /\ SnapshotsUpToDate = 2 /\ Len(successfulRuns) = 2
  /\ runDate > successfulRuns[2].date
  /\ Len(nv.segments) = 2

\* C16: evaluating at a date with no Snapshot on or before it evaluates no
\* segment and yields no data, and in every evaluated segment the aligned
\* start date is on or before the aligned end date.
C16_NoSnapshotNoData ==
  /\ SnapshotsUpToDate = 0 =>
       /\ nv.legs = <<>> /\ nv.segments = <<>>
       /\ nv.pc \in {"start", "done"}
       /\ nv.pc = "done" => ~nv.result.data
  /\ \A k \in AlignedSegments :
       nv.legs[k].alignedStartDate <= nv.legs[k].alignedEndDate

\* a fund whose first Snapshot is dated after the evaluation date: no data
C16_Witness ==
  /\ Len(successfulRuns) >= 1 /\ runDate < successfulRuns[1].date
  /\ nv.pc = "done" /\ ~nv.result.data

\* the Snapshots of the history dated on or before the evaluation date
KnownUpToDate == SubSeq(successfulRuns, 1, SnapshotsUpToDate)

\* what may be appended after the evaluation date: nothing, one Snapshot or two
LaterSnapshots ==
  {<<>>}
  \cup {<<[date |-> runDate + 1, holdings |-> h]>> : h \in {OnlyA, OnlyB, Thirds}}
  \cup {<<[date |-> runDate + 1, holdings |-> OnlyB],
          [date |-> runDate + 2, holdings |-> Halves]>>}

\* C17: evaluating at date D gives the same report (fund return, benchmark
\* return, coverage, as-of price date, or no data) whether or not Snapshots
\* dated after D exist: with the same charts, the report for the Snapshots up
\* to D followed by any later ones is the report for the Snapshots up to D.
C17_LaterSnapshotsChangeNothing ==
  nv.pc = "done" =>
    \A later \in LaterSnapshots :
      NavRun(NvStart, script, KnownUpToDate \o later, runDate,
             benchmarkTicker, chartFor).result = nv.result

\* a report for a date between two Snapshots that hold different tickers whose
\* prices moved differently after the date
C17_Witness ==
  /\ Reported /\ Len(successfulRuns) = 2 /\ SnapshotsUpToDate = 1
  /\ nv.result.fund_return_pct # 0
  /\ successfulRuns[1].holdings # successfulRuns[2].holdings
  /\ NavRun(NvStart, script, successfulRuns, MaxDay, benchmarkTicker,
            chartFor).result # nv.result

\* the weight of the k-th segment's holdings whose prices resolve at both of
\* its aligned dates
CoveredWeight(k) ==
  LET holdings == nv.segments[k].start.holdings
  IN SumSeq([i \in 1..Len(holdings) |->
               IF Resolves(holdings[i].ticker, nv.legs[k])
               THEN holdings[i].weight_pct ELSE 0])

\* C18: the reported covered_weight_pct is the minimum over all segments of
\* the computation of the segment's covered weight, so a later segment with
\* full coverage never raises it above an earlier, weaker one.
C18_CoverageIsWeakestLink ==
  Reported =>
    /\ \E k \in 1..Len(nv.segments) : nv.result.covered_weight_pct = CoveredWeight(k)
    /\ \A k \in 1..Len(nv.segments) : nv.result.covered_weight_pct <= CoveredWeight(k)

\* two thirds covered in the first segment, everything in the second: two
\* thirds reported
C18_Witness ==
  /\ Reported /\ Len(nv.segments) = 2
  /\ CoveredWeight(1) = 6666 /\ CoveredWeight(2) = 10000
  /\ nv.result.covered_weight_pct = 6666

\* C19: resolving a price over a date-sorted series returns the point with
\* the greatest date on or before targetDate, never a point dated after it,
\* and returns none exactly when the series is missing or empty or every
\* point of it is later than targetDate.
C19_LatestPointOnOrBefore ==
  lookup.pc = "returned" =>
    LET inTime == {p \in Range(lookup.chart) : p.date <= lookup.targetDate}
    IN /\ lookup.found = NoClose <=> inTime = {}
       /\ lookup.found # NoClose =>
            /\ lookup.found \in inTime
            /\ \A p \in inTime : p.date <= lookup.found.date
            /\ lookup.found.date <= lookup.targetDate

\* a point on the target date itself is returned although a later one follows
C19_Witness ==
  /\ lookup.pc = "returned" /\ Len(lookup.chart) = MaxPoints
  /\ lookup.found.date = lookup.targetDate
  /\ lookup.chart[1].date < lookup.targetDate
  /\ lookup.chart[MaxPoints].date > lookup.targetDate

(***************************************************************************)
(* Properties of the batch fetch.                                          *)
(***************************************************************************)
\* the batch has been fetched to the end
BatchFetched == fetch.pc = "done" /\ Len(fetch.workers) > 0

\* the workers that hold an item and have not finished with it
Busy(w) == fetch.workers[w].pc \in {"fetching", "awaiting"}

\* C13: during one batch fetch every distinct ticker of the items is fetched
\* exactly once and its chartCache entry written exactly once: no symbol is
\* requested twice, no key written twice, no two workers are at work on the
\* same key, and when the batch ends every ticker has been requested and
\* written once.
C13_EachTickerFetchedAndWrittenOnce ==
  /\ \A s \in DOMAIN fetch.fetched : fetch.fetched[s] <= 1
  /\ \A t \in DOMAIN fetch.written : fetch.written[t] <= 1
  /\ \A v, w \in 1..Len(fetch.workers) :
       (v # w /\ Busy(v) /\ Busy(w) /\ fetch.workers[v].alias > 0
          /\ fetch.workers[w].alias > 0)
         => fetch.items[fetch.workers[v].i + 1] # fetch.items[fetch.workers[w].i + 1]
  /\ BatchFetched =>
       \A t \in Range(fetch.items) :
         fetch.written[t] = 1 /\ fetch.fetched[symbolAliases(t)[1]] = 1

\* every request for the ticker, under every spelling, came back without a chart
FetchFailed(t) ==
  /\ \A a \in Range(symbolAliases(t)) : fetch.fetched[a] >= 1 /\ fetch.served[a] = 0

\* the holdings of a list whose ticker has data
WithData(holdings) == SelectSeq(holdings, LAMBDA h : chartFor[h.ticker] # NoChart)

\* the history with the holdings without data taken out
HistoryWithData ==
  [i \in 1..Len(successfulRuns) |->
     [date |-> successfulRuns[i].date,
      holdings |-> WithData(successfulRuns[i].holdings)]]

\* C20: a fetch failure for a ticker under every spelling tried leaves that
\* ticker with no data and never aborts the computation: the batch ends with
\* every ticker written, every ticker fetched once and served has its chart,
\* and the return is the one computed from the holdings that have data.
C20_FetchFailureIsNoData ==
  /\ fetch.pc = "running" =>
       \/ AllReturned(fetch)
       \/ \E w \in 1..Len(fetch.workers) : Busy(w)
  /\ BatchFetched =>
       /\ fetch.index >= Len(fetch.items)
       /\ \A t \in Range(fetch.items) :
            /\ t \in fetch.has
            /\ FetchFailed(t) => chartFor[t] = NoChart
            /\ \A a \in Range(symbolAliases(t)) :
                 (fetch.served[a] = 1 /\ fetch.written[t] = 1)
                   => chartFor[t] = Market(a)
       /\ \A i \in 1..Len(fetch.outItems) :
            LET item == fetch.outItems[i]
                chart == chartFor[item.ticker]
            IN IF chart = NoChart THEN ~item.has_return
               ELSE /\ item.has_return
                    /\ item.return_pct =
                         asPct(Rat(100 * (CloseAt(chart, runDate)
                                            - CloseAt(chart, fetch.startDate - 1)),
                                   CloseAt(chart, fetch.startDate - 1)))
  /\ (BatchFetched /\ nv.pc = "done" /\ Len(nv.segments) >= 1
        /\ \A k \in 1..Len(nv.segments) :
             WithData(nv.segments[k].start.holdings) # <<>>) =>
       /\ Reported
       /\ \A k \in 1..Len(nv.segments) :
            nv.legs[k].counted =
              {h.ticker : h \in Range(WithData(nv.segments[k].start.holdings))}
       /\ nv.result.fund_return_pct =
            NavRun(NvStart, script, HistoryWithData, runDate, benchmarkTicker,
                   chartFor).result.fund_return_pct

\* a return reported from TICK_A alone after the class share held with it
\* failed to fetch under both of its spellings
C20_Witness ==
  /\ BatchFetched /\ Reported
  /\ \E k \in 1..Len(nv.segments) :
       /\ nv.segments[k].start.holdings = WithClassShare
       /\ nv.legs[k].counted = {"TICK_A"}
  /\ FetchFailed("BRK.B")
  /\ Len(symbolAliases("BRK.B")) = 2
  /\ nv.result.fund_return_pct # 0

(***************************************************************************)
(* Properties of redistributeWithinCaps and of the fallback portfolio.     *)
(***************************************************************************)

WithinCaps(p) ==
  /\ \A i \in 1..Len(p) : p[i].weight_pct <= context.maxPositionPct
  /\ SectorsWithin(p, context.maxSectorPct)

\* C24: redistribution never breaks a cap.  If before a round of
\* redistributeWithinCaps every holding is at or below max_position_pct and
\* every sector total at or below max_sector_pct, they still are after the
\* round, also when several holdings with room share one sector.
C24_RedistributionKeepsCaps ==
  [][(RedistributeRound /\ WithinCaps(pe.portfolio))
       => WithinCaps(pe'.portfolio)]_vars


\* C28: the fallback portfolio buildPortfolio(N, max_position_pct), for every
\* N >= 1 and max_position_pct with N * max_position_pct >= 100, has exactly N
\* holdings with pairwise distinct tickers, no weight above max_position_pct,
\* and weights summing to 100.00 within 0.01.
C28_FallbackIsValid ==
  (/\ pe.pc = "done" /\ pe.reason \in REASONS
   /\ context.positions * context.maxPositionPct >= 100 * PCT) =>
    /\ Len(pe.portfolio) = context.positions
    /\ DistinctTickers(pe.portfolio)
    /\ \A i \in 1..Len(pe.portfolio) :
         pe.portfolio[i].weight_pct <= context.maxPositionPct
    /\ Abs(Total(pe.portfolio) - 100 * PCT) <= CENT


\* the mapper calls in flight: begun, and their worker not yet past its await
InFlight(f) == {w \in 1..Len(f.workers) : f.workers[w].pc \in {"fetching", "awaiting"}}

\* C30: under every interleaving of the mapper calls, mapWithConcurrency calls
\* the mapper exactly once for each item index, never has more than limit
\* mapper calls in flight, and resolves only after every mapper call has
\* completed.
C30_OncePerIndexWithinLimit ==
  /\ \A i \in 1..Len(fetch.called) : fetch.called[i] <= 1
  /\ Cardinality(InFlight(fetch)) <= fetch.limit
  /\ \A w \in InFlight(fetch) : fetch.called[fetch.workers[w].i + 1] = 1
  /\ BatchFetched =>
       /\ \A i \in 1..Len(fetch.items) : fetch.called[i] = 1
       /\ InFlight(fetch) = {}

\* a batch of more items than the limit, resolved
C30_Witness ==
  /\ BatchFetched
  /\ Len(fetch.items) > fetch.limit
  /\ \A i \in 1..Len(fetch.items) : fetch.called[i] = 1

\* as many mapper calls in flight as the limit allows, and items still waiting
AtTheLimit ==
  /\ fetch.pc = "running"
  /\ Cardinality(InFlight(fetch)) = fetch.limit
  /\ fetch.index < Len(fetch.items)

(***************************************************************************)
(* Properties that compare the two NAV programs, and of the chain of       *)
(* segments.                                                               *)
(***************************************************************************)

\* what the other program computes from the inputs of this computation
Other(program) ==
  IF program = "performance_since_added" THEN "compute_daily_nav"
  ELSE "performance_since_added"

OtherRun ==
  NavRun(NvStart, Other(script), successfulRuns, runDate, benchmarkTicker, chartFor)

SameFigures(a, b) ==
  /\ a.data = b.data
  /\ a.data =>
       /\ a.fund_return_pct = b.fund_return_pct
       /\ a.has_benchmark = b.has_benchmark
       /\ a.benchmark_return_pct = b.benchmark_return_pct
       /\ a.covered_weight_pct = b.covered_weight_pct
       /\ a.asof_price_date = b.asof_price_date

\* C25: computeFundDaily and performance_since_added use the same segment
\* logic: for the same Snapshot history, price series, benchmark and
\* evaluation date they report the same fund_return_pct, benchmark_return_pct,
\* covered_weight_pct and asof_price_date.
C25_CalculatorsAgree ==
  nv.pc = "done" => SameFigures(nv.result, OtherRun.result)

\* C26: consecutive segments cover the timeline without overlap or gap: the
\* aligned start date of segment i+1 equals the aligned end date of segment
\* i, also when the two segments hold different tickers whose latest price
\* dates differ.
C26_SegmentsMeet ==
  \A k \in 1..(Len(nv.legs) - 1) :
    nv.legs[k + 1].counted # {} =>
      nv.legs[k + 1].alignedStartDate = nv.legs[k].alignedEndDate


(***************************************************************************)
(* Properties of the lane run.                                             *)
(***************************************************************************)
\* the runs of an earlier date that run_meta.json records as successful
PreviousSuccessful(s) ==
  {i \in 1..Len(s.runs) :
     s.runs[i].date < s.run_date /\ s.runs[i].output /\ s.runs[i].meta = "success"}

\* the latest of them exists and is fewer days back than the cadence minimum
HeldByCadence(s) ==
  /\ PreviousSuccessful(s) # {}
  /\ \E i \in PreviousSuccessful(s) :
       /\ \A j \in PreviousSuccessful(s) : s.runs[j].date <= s.runs[i].date
       /\ s.run_date - s.runs[i].date < minimum_days_between_rebalances(s.cadence)

\* the portfolio of the latest previous successful run
PreviousPortfolio(s) ==
  s.runs[CHOOSE i \in PreviousSuccessful(s) :
           \A j \in PreviousSuccessful(s) : s.runs[j].date <= s.runs[i].date].doc.target_portfolio

\* doc holds the portfolio prev: "Do nothing", every weight within 0.01, no
\* other action listed
HoldsPortfolio(doc, prev) ==
  /\ doc.action = "Do nothing"
  /\ \A t \in TickersOf(prev) \cup TickersOf(doc.target_portfolio) :
       Abs(getWeight(doc.target_portfolio, t) - getWeight(prev, t)) <= CENT
  /\ \A i \in 1..Len(doc.rebalance_actions) :
       doc.rebalance_actions[i].action = "Do nothing"

\* C21: when a previous successful run exists and fewer days have elapsed
\* since it than the cadence minimum, a lane run ends with status success
\* only if its headline action is "Do nothing", every ticker's weight is
\* within 0.01 of the previous successful portfolio's and rebalance_actions
\* lists no action other than "Do nothing", auto-corrected outputs included.
C21_HeldUntilDue ==
  (lane.pc = "done" /\ lane.meta = "success" /\ HeldByCadence(lane))
    => HoldsPortfolio(lane.doc, PreviousPortfolio(lane))

\* a successful run inside the cadence minimum whose output was auto-corrected
C21_Witness ==
  /\ lane.pc = "done" /\ lane.meta = "success" /\ HeldByCadence(lane)
  /\ lane.doc.corrected

\* what a successful lane run rests on: a JSON object from the last attempt
\* that passes both validations as it stands, a scratchpad of this run, and
\* the Financial Datasets thresholds
SuccessConditions(s, k) ==
  /\ s.doc.json
  /\ validate_json_output(s.doc, k) = ""
  /\ validate_rebalance_policy(s, s.doc) = ""
  /\ s.scratchpad.written
  /\ s.scratchpad.source_urls >= FD_MIN_SOURCE_URLS
  /\ fd_error_ratio(s.scratchpad.errors, s.scratchpad.source_urls) <= FD_MAX_ERROR_RATIO

\* C22: a lane run is recorded with status success only if the last agent
\* attempt produced a JSON object that passed output validation and
\* rebalance-policy validation (after any auto-correction), a scratchpad of
\* this run was found and the source-coverage and error-ratio thresholds
\* were met; if any of these fails, run_meta.json records status failed.
C22_SuccessIsValidated ==
  (lane.pc = "done" /\ lane.attempts > 0) =>
    /\ lane.meta = "success" => SuccessConditions(lane, context)
    /\ ~SuccessConditions(lane, context) => lane.meta = "failed"

\* a run recorded as successful after a validation retry whose output was
\* auto-corrected
C22_Witness ==
  /\ lane.pc = "done" /\ lane.meta = "success"
  /\ lane.retry_used /\ lane.doc.corrected /\ lane.attempts = 2

C29_AlwaysWritesRunMeta ==
  lane.pc = "done" => lane.meta \in {"success", "failed"}

\* at the end of the script: after passed checks a run_meta.json with status
\* success or failed and exit code 0 exactly for success; after a failed
\* check no run_meta.json, no agent attempt and a non-zero exit code
EndsAsRecorded(s) ==
  IF s.prologue = "ok"
  THEN s.meta \in {"success", "failed"} /\ (s.exit = 0 <=> s.meta = "success")
  ELSE s.meta = "none" /\ s.attempts = 0 /\ s.exit \in {1, 64}

\* a bound on the steps the script has left: every retry costs an attempt,
\* and between attempts the script only moves on
StepsLeft(s) ==
  8 * (3 - s.attempts)
    + CASE s.pc = "args" -> 7 [] s.pc = "start" -> 6 [] s.pc = "fix" -> 5
        [] s.pc = "scratchpad" -> 4 [] s.pc = "run" -> 3 [] s.pc = "final" -> 2
        [] s.pc = "write" -> 1 [] OTHER -> 0

\* C29: every invocation that passes the argument, configuration and
\* ensure_dexter checks makes at most three agent attempts (the initial one,
\* at most one validation retry, at most one tool-use retry), then writes
\* run_meta.json with status success or failed and exits with code 0 exactly
\* when that status is success; an invocation that fails a check exits with
\* a non-zero code and writes no run_meta.json.  Every step of the script
\* lowers StepsLeft, so the end is reached.
C29_ThreeAttemptsThenMeta ==
  [][/\ lane'.attempts <= 3
     /\ StepsLeft(lane') < StepsLeft(lane)
     /\ lane'.pc = "done" => EndsAsRecorded(lane')]_vars

\* a run of three attempts: the initial one, the validation retry and the
\* tool-use retry
C29_Witness ==
  /\ lane.pc = "done" /\ lane.attempts = 3 /\ lane.retry_used
  /\ lane.phase = "tool_retry" /\ lane.meta \in {"success", "failed"}

\* C27: for a lane with weekly (monthly) cadence that completes a successful
\* run on every calendar day, some run within 7 (30) days after the last run
\* that changed the portfolio has rebalance_due true.
C27_DueAgainWithinCadence ==
  (/\ lane.pc = "args" /\ lane.cadence \in {"weekly", "monthly"}
   /\ lane.every_day /\ lane.last_change # 0
   /\ (lane.run_date - 1) - lane.last_change
        >= minimum_days_between_rebalances(lane.cadence))
    => lane.due_since
=============================================================================
